---- MODULE Spec2Model ----
(***************************************************************************)
(* Model of the download pipeline of free2fetch:                           *)
(*   - DownloadEngine / DownloadTask  (apps/core/services/download_engine) *)
(*   - M3U8Downloader                 (apps/core/services/download_engine) *)
(*   - download_course_task           (apps/downloads/tasks.py)            *)
(*   - DownloadTaskViewSet.cancel     (apps/downloads/views.py)            *)
(* The coroutines of DownloadTask are interleaved at their suspension      *)
(* points (await of network or file I/O); the code between two suspension  *)
(* points is one action.                                                   *)
(***************************************************************************)
EXTENDS Integers, Sequences, FiniteSets, TLC

\* ---------------------------------------------------------------- bounds
MaxLen == 3            \* longest resource, in bytes
MaxChunk == 2          \* largest chunk_size a configuration is given
MaxFaults == 2         \* network faults injected in one run
MaxRetriesCfg == 2     \* largest max_retries a configuration is given

Callers == {1, 2}
TaskIds == 1..2        \* a caller creates at most one DownloadTask
Urls == {"u"}
Paths == {"p"}

VARIABLES
    \* DownloadEngine
    downloads,      \* self.downloads: download_id -> DownloadTask instance
    lock,           \* self._lock: 0 when free, else the caller holding it
    tasks,          \* the DownloadTask instances, in order of creation
    config,         \* DownloadConfig
    co,             \* one coroutine per caller: its position and locals
    fs,             \* the files <target>, <target>.tmp and <target>.mtd
    net,            \* the remote server and the network
    hist            \* history of the run (not read by the program)

    \* download_course_task and the cancel endpoint
VARIABLES
    db,             \* the stored DownloadTask row
    loc,            \* download_task, the runner's in-memory copy of the row
    run,            \* the runner: its position, its plan and its locals
    view,           \* DownloadTaskViewSet.cancel: its position and its copy
    rh              \* history of the run (not read by the program)

    \* M3U8Downloader
VARIABLES
    hls             \* download_m3u8_stream: its position, locals and output

    \* the planner and the pure helpers
VARIABLES
    plan,           \* the curriculum, the task and the plans made for it
    lib             \* a call of a pure helper: its arguments and result

engVars == <<downloads, lock, tasks, config, co, fs, net, hist>>

runVars == <<db, loc, run, view, rh>>

hlsVars == <<hls>>

libVars == <<plan, lib>>

vars == <<downloads, lock, tasks, config, co, fs, net, hist,
          db, loc, run, view, rh, hls, plan, lib>>

\* ------------------------------------------------------------ filesystem
NoFile == [exists |-> FALSE, data |-> <<>>]

File(d) == [exists |-> TRUE, data |-> d]

Min(a, b) == IF a < b THEN a ELSE b

\* pwrite of chunk at offset pos; a gap is filled with zero bytes
WriteAt(data, pos, chunk) ==
    LET end == pos + Len(chunk)
        n == IF end > Len(data) THEN end ELSE Len(data)
    IN [i \in 1..n |->
            IF i > pos /\ i <= end THEN chunk[i - pos]
            ELSE IF i <= Len(data) THEN data[i]
            ELSE 0]

\* the resource of n bytes: byte i of the resource is i
Resource(n) == [i \in 1..n |-> i]

\* ------------------------------------------------------- DownloadEngine
\* hashlib.md5(f"{url}:{file_path}"): the digest is taken to be injective
\* on the text it is computed from
_generate_download_id(url, file_path) == url \o ":" \o file_path

\* DownloadTask.__init__
NewTask(url, file_path) ==
    [url |-> url, file_path |-> file_path, status |-> "pending",
     cancelled |-> FALSE, paused |-> FALSE,
     downloaded_size |-> 0, total_size |-> 0, error_message |-> "",
     \* history, not read by the program: GET requests issued, whether a
     \* transfer saw the cancel flag, whether cancel() hit a running transfer
     h_gets |-> 0, h_observed |-> FALSE, h_hit |-> FALSE]

IdleCo == [pc |-> "idle", url |-> "", path |-> "", id |-> "", task |-> 0,
           attempt |-> 0, resume_position |-> 0, body |-> <<>>,
           chunk |-> <<>>, mode |-> "", fh |-> "none", pos |-> 0,
           ret |-> "none"]

LockFree_NoLock(c) == TRUE

\* with self._lock: the lock is taken only when no other caller holds it
LockFree(c) == lock = 0

\* download(): line 87, the id is computed before the lock is taken
CallDownload(c, u, p) ==
    /\ co[c].pc = "idle"
    /\ co' = [co EXCEPT ![c].pc = "dl_lock", ![c].url = u, ![c].path = p,
                        ![c].id = _generate_download_id(u, p)]
    /\ UNCHANGED <<downloads, lock, tasks, config, fs, net, hist>>
    /\ UNCHANGED <<runVars, hlsVars, libVars>>

AcquireLock(c) ==
    /\ co[c].pc = "dl_lock"
    /\ LockFree(c)
    /\ lock' = c
    /\ co' = [co EXCEPT ![c].pc = "dl_check"]
    /\ UNCHANGED <<downloads, tasks, config, fs, net, hist>>
    /\ UNCHANGED <<runVars, hlsVars, libVars>>

\* if download_id in self.downloads: return self.downloads[download_id]
CheckRegistry(c) ==
    /\ co[c].pc = "dl_check"
    /\ IF co[c].id \in DOMAIN downloads
       THEN /\ co' = [co EXCEPT ![c].pc = "have_task",
                                ![c].task = downloads[co[c].id]]
            /\ lock' = IF lock = c THEN 0 ELSE lock
       ELSE /\ co' = [co EXCEPT ![c].pc = "dl_new"]
            /\ lock' = lock
    /\ UNCHANGED <<downloads, tasks, config, fs, net, hist>>
    /\ UNCHANGED <<runVars, hlsVars, libVars>>

\* task = DownloadTask(...); self.downloads[download_id] = task; return task
CreateTask(c) ==
    /\ co[c].pc = "dl_new"
    /\ tasks' = Append(tasks, NewTask(co[c].url, co[c].path))
    /\ downloads' = (co[c].id :> (Len(tasks) + 1)) @@ downloads
    /\ co' = [co EXCEPT ![c].pc = "have_task", ![c].task = Len(tasks) + 1]
    /\ lock' = IF lock = c THEN 0 ELSE lock
    /\ UNCHANGED <<config, fs, net, hist>>
    /\ UNCHANGED <<runVars, hlsVars, libVars>>


\* ---------------------------------------------------------- DownloadTask
InTransfer == {"save_md", "get", "open", "read", "paused_wait", "write",
               "closing", "unwind", "retry_sleep"}

\* the coroutines other than c whose open handle is the file named where
Retarget(c, from, to) ==
    [d \in Callers |->
        IF d # c /\ co[d].path = co[c].path /\ co[d].fh = from
        THEN [co[d] EXCEPT !.fh = to] ELSE co[d]]

\* start(), top of one iteration of `for attempt in range(max_retries)`,
\* up to the first suspension of _download_with_progress (lines 636-721);
\* tk is the value of the tasks at that point
EnterAttempt(c, att, tk) ==
    LET t == co[c].task
        tmp == fs[co[c].path].tmp
    IN IF att >= config.max_retries
       THEN \* the loop is exhausted: return False (line 654)
            /\ co' = [co EXCEPT ![c].pc = "done", ![c].ret = "false"]
            /\ tasks' = tk
       ELSE /\ co' = [co EXCEPT ![c].pc = "save_md", ![c].attempt = att,
                         ![c].resume_position =
                             IF tmp.exists THEN Len(tmp.data) ELSE 0]
            /\ tasks' = IF tmp.exists
                        THEN [tk EXCEPT ![t].downloaded_size = Len(tmp.data)]
                        ELSE tk

\* start(), lines 618-626: status PREPARING, then _is_file_complete, which
\* suspends in the HEAD request only when <target> exists
StartCall(c) ==
    LET t == co[c].task IN
    /\ co[c].pc = "have_task"
    /\ IF fs[co[c].path].target.exists
       THEN /\ tasks' = [tasks EXCEPT ![t].status = "preparing"]
            /\ co' = [co EXCEPT ![c].pc = "head"]
       ELSE EnterAttempt(c, 0, [tasks EXCEPT ![t].status = "downloading"])
    /\ UNCHANGED <<downloads, lock, config, fs, net, hist>>
    /\ UNCHANGED <<runVars, hlsVars, libVars>>

\* _is_file_complete(), lines 694-703, and start(), lines 626-633
HeadResponse(c, ok) ==
    LET t == co[c].task
        target == fs[co[c].path].target
        remote_size == Len(net.R)
        complete == /\ target.exists
                    /\ ok
                    /\ remote_size > 0
                    /\ Len(target.data) = remote_size
    IN
    /\ co[c].pc = "head"
    /\ IF complete
       THEN /\ tasks' = [tasks EXCEPT ![t].status = "completed"]
            /\ co' = [co EXCEPT ![c].pc = "done", ![c].ret = "true"]
       ELSE EnterAttempt(c, 0, [tasks EXCEPT ![t].status = "downloading"])
    /\ UNCHANGED <<downloads, lock, config, fs, net, hist>>
    /\ UNCHANGED <<runVars, hlsVars, libVars>>

\* _save_metadata (line 721), then session.get is issued (line 726)
SaveMetadata(c) ==
    LET t == co[c].task IN
    /\ co[c].pc = "save_md"
    /\ fs' = [fs EXCEPT ![co[c].path].mtd = TRUE]
    /\ tasks' = [tasks EXCEPT ![t].h_gets = @ + 1]
    /\ co' = [co EXCEPT ![c].pc = "get"]
    /\ UNCHANGED <<downloads, lock, config, net, hist>>
    /\ UNCHANGED <<runVars, hlsVars, libVars>>

\* except Exception in the retry loop (lines 643-652)
Raise(c, msg) ==
    LET t == co[c].task IN
    /\ IF co[c].attempt < config.max_retries - 1
       THEN /\ tasks' = [tasks EXCEPT ![t].error_message = msg]
            /\ co' = [co EXCEPT ![c].pc = "retry_sleep", ![c].fh = "none",
                                ![c].body = <<>>, ![c].chunk = <<>>]
       ELSE /\ tasks' = [tasks EXCEPT ![t].error_message = msg,
                                      ![t].status = "failed"]
            /\ co' = [co EXCEPT ![c].pc = "done", ![c].ret = "false",
                                ![c].fh = "none",
                                ![c].body = <<>>, ![c].chunk = <<>>]
    /\ hist' = [hist EXCEPT !.excs = @ + 1]

\* a connection error, a timeout or a truncated body
Fault(c) ==
    /\ co[c].pc \in {"get", "read"}
    /\ net.faults < MaxFaults
    /\ net' = [net EXCEPT !.faults = @ + 1]
    /\ Raise(c, "fault")
    /\ UNCHANGED <<downloads, lock, config, fs>>
    /\ UNCHANGED <<runVars, hlsVars, libVars>>

OpenMode_AlwaysTruncate(resume_position) == "wb"

\* mode = 'ab' if resume_position > 0 else 'wb' (line 747)
OpenMode(resume_position) == IF resume_position > 0 THEN "ab" ELSE "wb"

ResumeOffset_Kept(status, resume_position) == resume_position

\* "If we're resuming but got 200, start over" (lines 733-735)
ResumeOffset(status, resume_position) ==
    IF status = 200 THEN 0 ELSE resume_position

\* the response headers arrive (lines 727-747)
GetResponse(c) ==
    LET t == co[c].task
        p == co[c].path
        rp == co[c].resume_position
        n == Len(net.R)
    IN
    /\ co[c].pc = "get"
    /\ IF rp > 0 /\ net.rangeOK
       THEN IF rp < n
            THEN \* 206 Partial Content, Content-Range: bytes rp-(n-1)/n
                 /\ tasks' = [tasks EXCEPT ![t].total_size = n]
                 /\ co' = [co EXCEPT ![c].pc = "open", ![c].mode = OpenMode(rp),
                                     ![c].body = SubSeq(net.R, rp + 1, n)]
                 /\ UNCHANGED <<fs, hist>>
            ELSE \* 416 Range Not Satisfiable
                 /\ Raise(c, "HTTP 416")
                 /\ UNCHANGED fs
       ELSE \* 200: the whole resource
            /\ tasks' = [tasks EXCEPT
                   ![t].total_size = n,
                   ![t].downloaded_size = IF rp > 0 THEN 0 ELSE @]
            /\ IF rp > 0 /\ fs[p].tmp.exists
               THEN /\ fs' = [fs EXCEPT ![p].tmp = NoFile]
                    /\ co' = [Retarget(c, "tmp", "gone") EXCEPT
                                 ![c].pc = "open",
                                 ![c].mode = OpenMode(ResumeOffset(200, rp)),
                                 ![c].resume_position = ResumeOffset(200, rp),
                                 ![c].body = net.R]
               ELSE /\ fs' = fs
                    /\ co' = [co EXCEPT
                                 ![c].pc = "open",
                                 ![c].mode = OpenMode(ResumeOffset(200, rp)),
                                 ![c].resume_position = ResumeOffset(200, rp),
                                        ![c].body = net.R]
            /\ UNCHANGED hist
    /\ UNCHANGED <<downloads, lock, config, net>>
    /\ UNCHANGED <<runVars, hlsVars, libVars>>

\* aiofiles.open(temp_file_path, mode) (line 749)
OpenTmp(c) ==
    LET p == co[c].path
        tmp == fs[p].tmp
    IN
    /\ co[c].pc = "open"
    /\ fs' = [fs EXCEPT ![p].tmp =
                 IF co[c].mode = "wb" \/ ~tmp.exists THEN File(<<>>) ELSE tmp]
    /\ co' = [co EXCEPT ![c].pc = "read", ![c].fh = "tmp", ![c].pos = 0]
    /\ UNCHANGED <<downloads, lock, tasks, config, net, hist>>
    /\ UNCHANGED <<runVars, hlsVars, libVars>>

CopyStage_PauseIgnored(paused) == "write"

\* where the copy loop goes with a chunk it has received: into the sleep
\* of `while self._paused.is_set()` or on to the write (lines 758-764)
CopyStage(paused) == IF paused THEN "paused_wait" ELSE "write"

\* one chunk of the body arrives, or the body ends (lines 753-762)
ReadChunk(c, len) ==
    LET t == co[c].task IN
    /\ co[c].pc = "read"
    /\ IF co[c].body = <<>>
       THEN \* end of the stream: the file and the session are closed
            /\ len = 1
            /\ co' = [co EXCEPT ![c].pc = "closing", ![c].fh = "none"]
            /\ tasks' = tasks
       ELSE /\ len \in 1..Min(config.chunk_size, Len(co[c].body))
            /\ IF tasks[t].cancelled
               THEN \* return False
                    /\ co' = [co EXCEPT ![c].pc = "unwind", ![c].fh = "none",
                                        ![c].body = <<>>]
                    /\ tasks' = [tasks EXCEPT ![t].h_observed = TRUE]
               ELSE /\ co' = [co EXCEPT
                         ![c].pc = CopyStage(tasks[t].paused),
                         ![c].chunk = SubSeq(co[c].body, 1, len),
                         ![c].body = SubSeq(co[c].body, len + 1,
                                            Len(co[c].body))]
                    /\ tasks' = tasks
    /\ UNCHANGED <<downloads, lock, config, fs, net, hist>>
    /\ UNCHANGED <<runVars, hlsVars, libVars>>

\* while self._paused.is_set() and not self._cancelled.is_set(): sleep(0.1)
\* followed by the second cancel check (lines 758-762)
PausedWait(c) ==
    LET t == co[c].task IN
    /\ co[c].pc = "paused_wait"
    /\ ~(tasks[t].paused /\ ~tasks[t].cancelled)
    /\ IF tasks[t].cancelled
       THEN /\ co' = [co EXCEPT ![c].pc = "unwind", ![c].fh = "none",
                                ![c].body = <<>>, ![c].chunk = <<>>]
            /\ tasks' = [tasks EXCEPT ![t].h_observed = TRUE]
       ELSE /\ co' = [co EXCEPT ![c].pc = "write"]
            /\ tasks' = tasks
    /\ UNCHANGED <<downloads, lock, config, fs, net, hist>>
    /\ UNCHANGED <<runVars, hlsVars, libVars>>

\* await f.write(chunk); downloaded_size += len(chunk) (lines 764-765)
WriteChunk(c) ==
    LET t == co[c].task
        p == co[c].path
        f == IF co[c].fh = "tmp" THEN fs[p].tmp ELSE fs[p].target
        at == IF co[c].mode = "ab" THEN Len(f.data) ELSE co[c].pos
        g == File(WriteAt(f.data, at, co[c].chunk))
    IN
    /\ co[c].pc = "write"
    /\ fs' = IF co[c].fh = "tmp" THEN [fs EXCEPT ![p].tmp = g]
             ELSE IF co[c].fh = "target" THEN [fs EXCEPT ![p].target = g]
             ELSE fs
    /\ tasks' = [tasks EXCEPT ![t].downloaded_size = @ + Len(co[c].chunk)]
    /\ co' = [co EXCEPT ![c].pc = "read", ![c].chunk = <<>>,
                        ![c].pos = at + Len(co[c].chunk)]
    /\ UNCHANGED <<downloads, lock, config, net, hist>>
    /\ UNCHANGED <<runVars, hlsVars, libVars>>

\* the handles of the other coroutines after remove(target), rename(tmp)
AfterRename(c, hadTarget) ==
    [d \in Callers |->
        IF d # c /\ co[d].path = co[c].path
        THEN IF co[d].fh = "tmp" THEN [co[d] EXCEPT !.fh = "target"]
             ELSE IF co[d].fh = "target" /\ hadTarget
                  THEN [co[d] EXCEPT !.fh = "gone"]
                  ELSE co[d]
        ELSE co[d]]

\* lines 774-784 (rename, sidecar removed, return True), then
\* _finalize_download (lines 822-836) and return True (line 641)
Finish(c) ==
    LET t == co[c].task
        p == co[c].path
    IN
    /\ co[c].pc = "closing"
    /\ IF fs[p].tmp.exists
       THEN /\ fs' = [fs EXCEPT ![p].target = fs[p].tmp,
                                ![p].tmp = NoFile,
                                ![p].mtd = FALSE]
            /\ co' = [AfterRename(c, fs[p].target.exists) EXCEPT
                         ![c].pc = "done", ![c].ret = "true"]
       ELSE /\ fs' = [fs EXCEPT ![p].mtd = FALSE]
            /\ co' = [co EXCEPT ![c].pc = "done", ![c].ret = "true"]
    /\ tasks' = [tasks EXCEPT ![t].status = "completed"]
    /\ UNCHANGED <<downloads, lock, config, net, hist>>
    /\ UNCHANGED <<runVars, hlsVars, libVars>>

\* _download_with_progress returned False: the loop goes on (line 636)
Unwind(c) ==
    /\ co[c].pc = "unwind"
    /\ EnterAttempt(c, co[c].attempt + 1, tasks)
    /\ UNCHANGED <<downloads, lock, config, fs, net, hist>>
    /\ UNCHANGED <<runVars, hlsVars, libVars>>

\* await asyncio.sleep(self.config.retry_interval) is over (line 648)
RetryWake(c) ==
    /\ co[c].pc = "retry_sleep"
    /\ EnterAttempt(c, co[c].attempt + 1, tasks)
    /\ UNCHANGED <<downloads, lock, config, fs, net, hist>>
    /\ UNCHANGED <<runVars, hlsVars, libVars>>

\* pause() (lines 663-668)
Pause(t) ==
    /\ t \in 1..Len(tasks)
    /\ tasks' = [tasks EXCEPT
           ![t].paused = TRUE,
           ![t].status = IF @ = "downloading" THEN "paused" ELSE @]
    /\ UNCHANGED <<downloads, lock, config, co, fs, net, hist>>
    /\ UNCHANGED <<runVars, hlsVars, libVars>>

\* resume() (lines 670-675)
Resume(t) ==
    /\ t \in 1..Len(tasks)
    /\ tasks' = [tasks EXCEPT
           ![t].paused = FALSE,
           ![t].status = IF @ = "paused" THEN "downloading" ELSE @]
    /\ UNCHANGED <<downloads, lock, config, co, fs, net, hist>>
    /\ UNCHANGED <<runVars, hlsVars, libVars>>

\* cancel() (lines 677-685); self._download_task is never assigned
Cancel(t) ==
    /\ t \in 1..Len(tasks)
    /\ tasks' = [tasks EXCEPT
           ![t].cancelled = TRUE,
           ![t].paused = FALSE,
           ![t].status = "cancelled",
           ![t].h_hit = @ \/ (/\ tasks[t].status \in {"downloading", "paused"}
                              /\ \E c \in Callers :
                                    /\ co[c].task = t
                                    /\ co[c].pc \in InTransfer)]
    /\ hist' = [hist EXCEPT !.cancelCalled = TRUE]
    /\ UNCHANGED <<downloads, lock, config, co, fs, net>>
    /\ UNCHANGED <<runVars, hlsVars, libVars>>

\* ------------------------------------------------------- specifications
\* the disk as an earlier run left it: no file, a complete file or an
\* older file at <target>; nothing or the first k bytes at <target>.tmp,
\* with the sidecar of that run
Disks(R) ==
    {[target |-> tg, tmp |-> tm, mtd |-> tm.exists] :
        tg \in {NoFile, File(R), File(<<0>> \o R)},
        tm \in {NoFile} \cup {File(SubSeq(R, 1, k)) : k \in 0..Len(R)}}

\* the components a specification does not exercise stay as constructed
RunOff ==
    /\ db = [status |-> "pending"]
    /\ loc = [status |-> "pending"]
    /\ run = [pc |-> "off"]
    /\ view = [pc |-> "off"]
    /\ rh = <<>>

HlsOff == hls = [pc |-> "off"]

PlanOff == plan = [pc |-> "off"]

LibOff == PlanOff /\ lib = [pc |-> "off"]

Configs == [max_retries : 0..MaxRetriesCfg, chunk_size : 1..MaxChunk]

EngInit(active, lens, cfgs) ==
    /\ RunOff
    /\ HlsOff
    /\ LibOff
    /\ downloads = <<>>
    /\ lock = 0
    /\ tasks = <<>>
    /\ config \in cfgs
    /\ co = [c \in Callers |->
                IF c \in active THEN IdleCo ELSE [IdleCo EXCEPT !.pc = "off"]]
    /\ \E n \in lens, ok \in BOOLEAN :
          /\ net = [R |-> Resource(n), rangeOK |-> ok, faults |-> 0]
          /\ \E d \in Disks(Resource(n)) :
                /\ fs = [p \in Paths |-> d]
                /\ hist = [excs |-> 0, cancelCalled |-> FALSE, disk0 |-> d]

Transfer(c) ==
    \/ \E u \in Urls, p \in Paths : CallDownload(c, u, p)
    \/ AcquireLock(c)
    \/ CheckRegistry(c)
    \/ CreateTask(c)
    \/ StartCall(c)
    \/ \E ok \in BOOLEAN : HeadResponse(c, ok)
    \/ SaveMetadata(c)
    \/ GetResponse(c)
    \/ OpenTmp(c)
    \/ \E len \in 1..MaxChunk : ReadChunk(c, len)
    \/ PausedWait(c)
    \/ WriteChunk(c)
    \/ Finish(c)
    \/ Unwind(c)
    \/ RetryWake(c)

\* one caller of start(), with pause(), resume(), cancel() and faults
Init == EngInit({1}, 1..MaxLen, Configs)

Next ==
    \/ \E c \in Callers : Transfer(c)
    \/ \E c \in Callers : Fault(c)
    \/ \E t \in TaskIds : Pause(t)
    \/ \E t \in TaskIds : Resume(t)
    \/ \E t \in TaskIds : Cancel(t)

Spec == Init /\ [][Next]_vars


\* two callers of download() and start() on one engine, with pause(),
\* resume() and cancel(); no fault is injected, max_retries is 2
InitEngine ==
    EngInit({1, 2}, 1..2, {[max_retries |-> 2, chunk_size |-> 1]})

NextEngine ==
    \/ \E c \in Callers : Transfer(c)
    \/ \E t \in TaskIds : Pause(t)
    \/ \E t \in TaskIds : Resume(t)
    \/ \E t \in TaskIds : Cancel(t)

SpecEngine == InitEngine /\ [][NextEngine]_vars

\* ------------------------------------------------- download_course_task
MaxItems == 2          \* most WorkItems a plan holds

\* the row as the API layer created it; total_items and failed_items are
\* not reset by the retry endpoint, so a retried task starts with the
\* counts of its previous run, in which f items of f failed
Row(f) ==
    [status |-> "pending", total_items |-> f, downloaded_items |-> 0,
     failed_items |-> f, progress_percentage |-> 0, error_message |-> "",
     celery_task_id |-> FALSE]

PlanFails_Never(n) == FALSE

\* if not download_items: raise Exception(...) (lines 52-53)
PlanFails(n) == n = 0

FinalStatus_FailedOnErrors(failed_items) ==
    IF failed_items = 0 THEN "completed" ELSE "failed"

\* lines 116-121: both branches set 'completed'
FinalStatus(failed_items) == "completed"

\* line 75: `download_task.refresh_from_db() and status == 'cancelled'`;
\* Model.refresh_from_db() returns None, so the conjunction is never true
BreakOnCancel(refreshed, status) == refreshed /\ status = "cancelled"

\* download_task.save(): every field of the copy is written to the row
RunnerSave(row) ==
    /\ db' = row
    /\ rh' = [rh EXCEPT !.lastSave = row,
                        !.everCompleted = @ \/ row.status = "completed"]

\* lines 36-40: objects.get, then status 'preparing' is saved
RunGet ==
    /\ run.pc = "r_get"
    /\ loc' = db
    /\ run' = [run EXCEPT !.pc = "r_save_prep"]
    /\ UNCHANGED <<db, view, rh>>
    /\ UNCHANGED <<engVars, hlsVars, libVars>>

RunSavePreparing ==
    /\ run.pc = "r_save_prep"
    /\ loc' = [loc EXCEPT !.status = "preparing", !.celery_task_id = TRUE]
    /\ RunnerSave(loc')
    /\ run' = [run EXCEPT !.pc = "r_fetch"]
    /\ UNCHANGED view
    /\ UNCHANGED <<engVars, hlsVars, libVars>>

\* lines 46-48: fetch_course_content_for_download returns the curriculum,
\* or None when the fetch failed
RunFetch(ok) ==
    /\ run.pc = "r_fetch"
    /\ IF ok
       THEN /\ run' = [run EXCEPT !.pc = "r_plan"]
            /\ rh' = rh
       ELSE /\ run' = [run EXCEPT !.pc = "h_get",
                                  !.exc = "Failed to fetch course content"]
            /\ rh' = [rh EXCEPT !.taskFailed = TRUE]
    /\ UNCHANGED <<db, loc, view>>
    /\ UNCHANGED <<engVars, hlsVars, libVars>>

\* lines 51-53: prepare_download_items yields n WorkItems
RunPlan(n) ==
    /\ run.pc = "r_plan"
    /\ rh' = [rh EXCEPT !.taskFailed = @ \/ n = 0]
    /\ IF PlanFails(n)
       THEN run' = [run EXCEPT !.pc = "h_get",
                               !.exc = "No downloadable items found"]
       ELSE run' = [run EXCEPT !.pc = "r_save_dl",
                               !.items = [i \in 1..n |-> "pending"]]
    /\ UNCHANGED <<db, loc, view>>
    /\ UNCHANGED <<engVars, hlsVars, libVars>>

\* lines 56-58 and 72
RunSaveDownloading ==
    /\ run.pc = "r_save_dl"
    /\ loc' = [loc EXCEPT !.total_items = Len(run.items),
                          !.status = "downloading"]
    /\ RunnerSave(loc')
    /\ run' = [run EXCEPT !.pc = "r_loop", !.idx = 1, !.completed_items = 0]
    /\ UNCHANGED view
    /\ UNCHANGED <<engVars, hlsVars, libVars>>

\* lines 73-76: the next item, refresh_from_db and the cancel test
RunLoop ==
    /\ run.pc = "r_loop"
    /\ IF run.idx > Len(run.items)
       THEN /\ run' = [run EXCEPT !.pc = "r_final"]
            /\ loc' = loc
       ELSE /\ loc' = db
            /\ run' = [run EXCEPT !.pc =
                          IF BreakOnCancel(FALSE, db.status)
                          THEN "r_final" ELSE "r_item"]
    /\ UNCHANGED <<db, view, rh>>
    /\ UNCHANGED <<engVars, hlsVars, libVars>>

\* lines 79-87: download_single_item returns success, the item and the
\* counters are updated in memory
RunItem(success) ==
    /\ run.pc = "r_item"
    /\ run' = [run EXCEPT
           !.pc = "r_save_item",
           !.items[run.idx] = IF success THEN "completed" ELSE "failed",
           !.completed_items = IF success THEN @ + 1 ELSE @]
    /\ loc' = [loc EXCEPT !.failed_items = IF success THEN @ ELSE @ + 1]
    /\ rh' = [rh EXCEPT !.executed = Append(@, run.idx),
                        !.startedCancelled = @ \/ loc.status = "cancelled"]
    /\ UNCHANGED <<db, view>>
    /\ UNCHANGED <<engVars, hlsVars, libVars>>

\* line 89: item.save()
RunSaveItem ==
    /\ run.pc = "r_save_item"
    /\ run' = [run EXCEPT !.pc = "r_save_task"]
    /\ UNCHANGED <<db, loc, view, rh>>
    /\ UNCHANGED <<engVars, hlsVars, libVars>>

\* lines 92-94
RunSaveTask ==
    /\ run.pc = "r_save_task"
    /\ loc' = [loc EXCEPT
           !.downloaded_items = run.completed_items,
           !.progress_percentage =
               (run.completed_items * 100) \div Len(run.items)]
    /\ RunnerSave(loc')
    /\ run' = [run EXCEPT !.pc = "r_loop", !.idx = @ + 1]
    /\ UNCHANGED view
    /\ UNCHANGED <<engVars, hlsVars, libVars>>

\* lines 115-125
RunFinalize ==
    /\ run.pc = "r_final"
    /\ IF loc.status # "cancelled"
       THEN /\ loc' = [loc EXCEPT !.status = FinalStatus(loc.failed_items),
                                  !.progress_percentage = 100]
            /\ RunnerSave(loc')
       ELSE UNCHANGED <<loc, db, rh>>
    /\ run' = [run EXCEPT !.pc = "done"]
    /\ UNCHANGED view
    /\ UNCHANGED <<engVars, hlsVars, libVars>>

\* the failure handler, line 141: the row is read again
RunHandlerGet ==
    /\ run.pc = "h_get"
    /\ loc' = db
    /\ run' = [run EXCEPT !.pc = "h_save"]
    /\ UNCHANGED <<db, view, rh>>
    /\ UNCHANGED <<engVars, hlsVars, libVars>>

\* the failure handler, lines 142-144
RunHandlerSave ==
    /\ run.pc = "h_save"
    /\ loc' = [loc EXCEPT !.status = "failed", !.error_message = run.exc]
    /\ RunnerSave(loc')
    /\ run' = [run EXCEPT !.pc = "done"]
    /\ UNCHANGED view
    /\ UNCHANGED <<engVars, hlsVars, libVars>>

InLoop == {"r_loop", "r_item", "r_save_item", "r_save_task"}

\* DownloadTaskViewSet.cancel, lines 94-100: get_object and the guard
ViewGet ==
    /\ view.pc = "v_idle"
    /\ view' = IF db.status \in {"completed", "cancelled"}
               THEN [view EXCEPT !.pc = "v_done"]
               ELSE [pc |-> "v_save", obj |-> db]
    /\ UNCHANGED <<db, loc, run, rh>>
    /\ UNCHANGED <<engVars, hlsVars, libVars>>

\* DownloadTaskViewSet.cancel, lines 102-108: save, then revoke
ViewSave ==
    /\ view.pc = "v_save"
    /\ db' = [view.obj EXCEPT !.status = "cancelled"]
    /\ view' = [view EXCEPT !.pc = "v_done"]
    /\ rh' = [rh EXCEPT !.cancelStored = TRUE,
                        !.cancelInLoop = run.pc \in InLoop,
                        !.revoked = view.obj.celery_task_id]
    /\ UNCHANGED <<loc, run>>
    /\ UNCHANGED <<engVars, hlsVars, libVars>>

\* control.revoke(celery_task_id, terminate=True): the worker process is
\* signalled, the runner stops wherever it is when the signal arrives
RunKilled ==
    /\ rh.revoked
    /\ run.pc \notin {"done", "killed"}
    /\ run' = [run EXCEPT !.pc = "killed"]
    /\ UNCHANGED <<db, loc, view, rh>>
    /\ UNCHANGED <<engVars, hlsVars, libVars>>

EngOff ==
    /\ downloads = <<>>
    /\ lock = 0
    /\ tasks = <<>>
    /\ config = [max_retries |-> 3, chunk_size |-> 1]
    /\ co = [c \in Callers |-> [IdleCo EXCEPT !.pc = "off"]]
    /\ fs = [p \in Paths |-> [target |-> NoFile, tmp |-> NoFile,
                              mtd |-> FALSE]]
    /\ net = [R |-> <<>>, rangeOK |-> TRUE, faults |-> 0]
    /\ hist = <<>>

InitRunner ==
    /\ EngOff
    /\ HlsOff
    /\ LibOff
    /\ \E f \in 0..1 :
          /\ db = Row(f)
          /\ rh = [executed |-> <<>>, taskFailed |-> FALSE,
                   everCompleted |-> FALSE, cancelStored |-> FALSE,
                   revoked |-> FALSE, startedCancelled |-> FALSE,
                   cancelInLoop |-> FALSE,
                   lastSave |-> Row(f), failed0 |-> f]
    /\ loc = Row(0)
    /\ run = [pc |-> "r_get", idx |-> 0, completed_items |-> 0,
              items |-> <<>>, exc |-> ""]
    /\ view = [pc |-> "v_idle", obj |-> Row(0)]

NextRunner ==
    \/ RunGet
    \/ RunSavePreparing
    \/ \E ok \in BOOLEAN : RunFetch(ok)
    \/ \E n \in 0..MaxItems : RunPlan(n)
    \/ RunSaveDownloading
    \/ RunLoop
    \/ \E success \in BOOLEAN : RunItem(success)
    \/ RunSaveItem
    \/ RunSaveTask
    \/ RunFinalize
    \/ RunHandlerGet
    \/ RunHandlerSave
    \/ ViewGet
    \/ ViewSave
    \/ RunKilled

SpecRunner == InitRunner /\ [][NextRunner]_vars


\* -------------------------------------------------------- M3U8Downloader
MaxSegs == 3           \* most segments a playlist holds

\* chunk_size = 100 (line 906); the smaller sizes put a chunk boundary
\* inside a playlist of MaxSegs segments
HlsChunkSizes == {1, 2, 100}

\* the payload of segment i: one or two bytes of value i
Payload(i) == [k \in 1..(1 + (i % 2)) |-> i]

RECURSIVE Flatten(_)
Flatten(ss) == IF ss = <<>> THEN <<>> ELSE Head(ss) \o Flatten(Tail(ss))

Gathered_CompletionOrder(first, last, data, order) ==
    [k \in 1..(last - first + 1) |-> data[order[k]]]

\* asyncio.gather(*tasks) (line 1004): the results in the order of the
\* awaitables, whatever the order in which they completed
Gathered(first, last, data, order) ==
    [k \in 1..(last - first + 1) |-> data[first + k - 1]]

\* the segments of the chunk that starts after segment i
HlsChunk(i, n, size) == (i + 1)..Min(i + size, n)

\* lines 900-918: the playlist is read, the output file is opened 'wb'
\* and the fetches of the first chunk are started
HlsStart(n, size) ==
    /\ hls.pc = "start"
    /\ IF n = 0
       THEN hls' = [hls EXCEPT !.pc = "done", !.ret = "false"]
       ELSE hls' = [hls EXCEPT !.pc = "gather", !.n = n, !.size = size,
                               !.i = 0, !.out = File(<<>>),
                               !.pending = HlsChunk(0, n, size)]
    /\ UNCHANGED <<engVars, runVars, libVars>>

\* download_segment (lines 973-1000): the payload on 200, b'' otherwise
SegmentDone(j, ok) ==
    /\ hls.pc = "gather"
    /\ j \in hls.pending
    /\ hls' = [hls EXCEPT !.pending = @ \ {j},
                          !.order = Append(@, j),
                          !.data = [@ EXCEPT ![j] =
                                       IF ok THEN Payload(j) ELSE <<>>],
                          !.fetched = IF ok THEN @ \cup {j} ELSE @]
    /\ UNCHANGED <<engVars, runVars, libVars>>

\* lines 918-936: gather returns, the data of the chunk is written, the
\* next chunk is started or True is returned
HlsWrite ==
    LET first == hls.i + 1
        last == Min(hls.i + hls.size, hls.n)
        segment_data == Gathered(first, last, hls.data, hls.order)
    IN
    /\ hls.pc = "gather"
    /\ hls.pending = {}
    /\ hls' = [hls EXCEPT
           !.out = File(@.data \o Flatten(segment_data)),
           !.i = last,
           !.order = <<>>,
           !.history = @ \o hls.order,
           !.pending = HlsChunk(last, hls.n, hls.size),
           !.pc = IF last >= hls.n THEN "done" ELSE "gather",
           !.ret = IF last >= hls.n THEN "true" ELSE @]
    /\ UNCHANGED <<engVars, runVars, libVars>>

InitHls ==
    /\ EngOff
    /\ RunOff
    /\ LibOff
    /\ hls = [pc |-> "start", n |-> 0, size |-> 0, i |-> 0, out |-> NoFile,
              pending |-> {}, order |-> <<>>, history |-> <<>>,
              data |-> [j \in 1..MaxSegs |-> <<>>], fetched |-> {},
              ret |-> "none"]

NextHls ==
    \/ \E n \in 0..MaxSegs, size \in HlsChunkSizes : HlsStart(n, size)
    \/ \E j \in 1..MaxSegs, ok \in BOOLEAN : SegmentDone(j, ok)
    \/ HlsWrite

SpecHls == InitHls /\ [][NextHls]_vars


\* ----------------------------------------------------------------- claims
Terminal == {"completed", "failed", "cancelled"}

Returned(c) == co[c].pc \notin {"off", "idle", "dl_lock", "dl_check", "dl_new"}

\* C1: a partial <target>.tmp holding the first k bytes (0 < k < N), a
\* server that honours Range, no cancel() and fewer transfer exceptions
\* than attempts: start() returns true and <target> holds exactly the N
\* bytes of the resource, in order.
C1_ResumeCorrect ==
    \A c \in Callers :
        (/\ co[c].pc = "done"
         /\ hist.disk0.tmp.exists
         /\ Len(hist.disk0.tmp.data) \in 1..(Len(net.R) - 1)
         /\ net.rangeOK
         /\ ~hist.cancelCalled
         /\ hist.excs < config.max_retries)
        => /\ co[c].ret = "true"
           /\ fs[co[c].path].target = File(net.R)

\* a resumed transfer (206) has finished and produced <target>
C1_Witness ==
    \E c \in Callers :
        /\ co[c].pc = "done"
        /\ co[c].ret = "true"
        /\ co[c].mode = "ab"
        /\ ~hist.disk0.target.exists
        /\ Len(hist.disk0.tmp.data) \in 1..(Len(net.R) - 1)
        /\ net.rangeOK
        /\ ~hist.cancelCalled
        /\ tasks[co[c].task].h_gets = 1
        /\ fs[co[c].path].target = File(net.R)

\* C2: concurrent download(url, path) calls with identical (url, path)
\* return the same DownloadTask instance, which is the one the registry
\* holds, and only one instance exists for that (url, path).
C2_SameInstance ==
    \A c \in Callers :
        Returned(c) =>
            /\ co[c].id \in DOMAIN downloads
            /\ downloads[co[c].id] = co[c].task
            /\ Cardinality({t \in 1..Len(tasks) :
                              /\ tasks[t].url = co[c].url
                              /\ tasks[t].file_path = co[c].path}) = 1
            /\ \A d \in Callers :
                  (Returned(d) /\ co[d].url = co[c].url
                               /\ co[d].path = co[c].path)
                  => co[d].task = co[c].task

\* both callers have returned from download() with the one instance
C2_Witness ==
    /\ Returned(1) /\ Returned(2)
    /\ co[1].id = co[2].id
    /\ co[1].task = co[2].task
    /\ co[1].task = 1

Running == {"get", "open", "read", "paused_wait", "write", "closing"}

\* C3: at most one transfer (one GET writing to <target>.tmp) is running
\* for a task at any time, also when two callers that obtained the task
\* from download() each call start() on it.
C3_NoDuplicateTransfer ==
    \A t \in 1..Len(tasks) :
        Cardinality({c \in Callers :
                        co[c].task = t /\ co[c].pc \in Running}) <= 1

\* the diagram, read generously: a path of the diagram taken within one
\* step, and cancelled entered from any status that is not terminal
Edge(s, n) ==
    \/ s = n
    \/ s = "pending" /\ n \in {"preparing", "downloading", "paused"}
    \/ s = "preparing" /\ n \in {"downloading", "paused", "completed"}
    \/ s = "downloading" /\ n = "paused"
    \/ s = "paused" /\ n = "downloading"
    \/ s \in {"downloading", "paused"} /\ n \in Terminal
    \/ s \notin Terminal /\ n = "cancelled"

\* C4: each change of a task's status follows the state diagram, and
\* completed, failed and cancelled are terminal.
C4_StateMachine ==
    [][\A t \in 1..Len(tasks) :
          Edge(tasks[t].status, tasks'[t].status)]_vars

\* C5: once cancel() has hit a running transfer, <target> is not created
\* or replaced, start() returns false, and no GET is issued after the
\* transfer has seen the cancellation.
C5_CancelAborts ==
    [][\A c \in Callers :
          (co[c].task # 0 /\ tasks[co[c].task].h_hit) =>
              /\ fs'[co[c].path].target = fs[co[c].path].target
              /\ (co[c].pc # "done" /\ co'[c].pc = "done")
                    => co'[c].ret = "false"
              /\ tasks[co[c].task].h_observed
                    => tasks'[co[c].task].h_gets = tasks[co[c].task].h_gets
      ]_vars

\* C6: the engine gives up (status failed) only when max_retries retries
\* have been made, that is after max_retries + 1 failed attempts.
C6_RetryPolicy ==
    \A t \in 1..Len(tasks) :
        tasks[t].status = "failed" => hist.excs > config.max_retries


Count(seq, v) == Cardinality({i \in 1..Len(seq) : seq[i] = v})

C8_CancelHonoured ==
    [][rh.cancelInLoop =>
          /\ db'.status = "cancelled"
          /\ (run.pc = "r_item" /\ loc.status = "cancelled")
                => rh'.executed = rh.executed
      ]_vars

\* C9: after a failed curriculum fetch or an empty plan no item is
\* executed, completed is never stored, and the runner's last save stores
\* failed with an error message (which is what the row holds at the end
\* unless the cancel endpoint wrote to it).
C9_TaskLevelFailure ==
    rh.taskFailed =>
        /\ rh.executed = <<>>
        /\ ~rh.everCompleted
        /\ run.pc = "done" =>
              /\ rh.lastSave.status = "failed"
              /\ rh.lastSave.error_message # ""
              /\ ~rh.cancelStored =>
                    /\ db.status = "failed"
                    /\ db.error_message # ""

\* the plan was empty and the runner has ended
C9_Witness ==
    /\ run.pc = "done"
    /\ rh.taskFailed
    /\ db.status = "failed"
    /\ db.error_message = "No downloadable items found"

\* C10: the output is the concatenation, in playlist order, of the
\* payloads of the fetched segments, whatever the order in which the
\* fetches completed; with every fetch successful it is
\* seg[0] ++ seg[1] ++ ... ++ seg[n-1].
C10_PlaylistOrder ==
    hls.pc = "done" /\ hls.ret = "true" =>
        /\ hls.out.exists
        /\ hls.out.data =
              Flatten([j \in 1..hls.n |->
                          IF j \in hls.fetched THEN Payload(j) ELSE <<>>])
        /\ hls.fetched = 1..hls.n =>
              hls.out.data = Flatten([j \in 1..hls.n |-> Payload(j)])

\* three segments fetched in two chunks, completed in reverse order
C10_Witness ==
    /\ hls.pc = "done"
    /\ hls.n = 3
    /\ hls.size = 2
    /\ hls.fetched = {1, 2, 3}
    /\ hls.history = <<2, 1, 3>>
    /\ hls.out.data = <<1, 1, 2, 3, 3>>

\* the segments whose fetch failed: gathered, and not with a payload
HlsFailed == hls.fetched # 1..hls.n

\* C11: the assembly is all-or-nothing: when the fetch of any segment
\* failed the assembly returns false and no file is left at the output
\* path, and a true result means the bytes of every segment are in the
\* output.
C11_AllOrNothing ==
    hls.pc = "done" /\ hls.n > 0 =>
        /\ HlsFailed => hls.ret = "false" /\ ~hls.out.exists
        /\ hls.ret = "true" =>
              /\ hls.fetched = 1..hls.n
              /\ hls.out.data = Flatten([j \in 1..hls.n |-> Payload(j)])

\* ------------------------------------------------------------------ Utils
\* Names are sequences of characters (a run of letters or digits counts as
\* one character); Str joins them into the string a path is made of.
RECURSIVE Str(_)
Str(cs) == IF cs = <<>> THEN "" ELSE Head(cs) \o Str(Tail(cs))

\* invalid_chars (line 175), the printable ones
InvalidChars == {"<", ">", ":", "\"", "/", "\\", "|", "?", "*"}

\* str.strip(chars)
RECURSIVE Strip(_, _)
Strip(cs, drop) ==
    IF cs # <<>> /\ Head(cs) \in drop THEN Strip(Tail(cs), drop)
    ELSE IF cs # <<>> /\ cs[Len(cs)] \in drop
    THEN Strip(SubSeq(cs, 1, Len(cs) - 1), drop)
    ELSE cs

\* Utils.sanitize_filename (lines 163-187); the names of the model are
\* shorter than 255 characters, the cut of lines 182-185 is not taken
sanitize_filename(filename) ==
    LET replaced == [i \in 1..Len(filename) |->
                        IF filename[i] \in InvalidChars THEN "-"
                        ELSE filename[i]]
        sanitized == Strip(replaced, {".", " "})
    IN IF sanitized = <<>> THEN <<"unnamed">> ELSE sanitized

\* Utils.zero_pad (lines 89-102): str(num).zfill(digits), NumDigits(n)
\* being len(str(n))
zero_pad(num, max_val) ==
    LET RECURSIVE NumDigits(_)
        NumDigits(n) == IF n < 10 THEN 1 ELSE 1 + NumDigits(n \div 10)
        RECURSIVE Zeros(_)
        Zeros(k) == IF k <= 0 THEN "" ELSE "0" \o Zeros(k - 1)
        digits == IF max_val > 0 THEN NumDigits(max_val) ELSE 1
    IN Zeros(digits - NumDigits(num)) \o ToString(num)

\* Utils.get_sequence_name (lines 104-160), its 'fullPath'; the renames of
\* lines 145-158 move files of an earlier run and leave the result alone
get_sequence_name(index, count, name, separator_index, path, seq_zero_left) ==
    LET sanitized_name == Str(sanitize_filename(name))
        index_name == ToString(index) \o separator_index \o sanitized_name
        sequence_name ==
            zero_pad(index, count) \o separator_index \o sanitized_name
        index_path == path \o "/" \o index_name
        sequence_path == path \o "/" \o sequence_name
    IN IF index_path = sequence_path THEN index_path
       ELSE IF seq_zero_left THEN sequence_path
       ELSE index_path

\* a dictionary key or a quality setting: its text, and its value when the
\* text is a number (float(key), int(quality), Utils.is_number)
Lbl(n) == [text |-> ToString(n), isnum |-> TRUE, val |-> n]

Word(s) == [text |-> s, isnum |-> FALSE, val |-> 0]

Abs(x) == IF x < 0 THEN 0 - x ELSE x

\* lines 290-297: the index of the closest key so far, 0 before the first
RECURSIVE ScanClosest(_, _, _, _)
ScanClosest(numeric_keys, target, i, closest) ==
    IF i > Len(numeric_keys) THEN closest
    ELSE LET distance == Abs(numeric_keys[i].key.val - target)
         IN ScanClosest(numeric_keys, target, i + 1,
               IF closest = 0
                  \/ distance < Abs(numeric_keys[closest].key.val - target)
               THEN i ELSE closest)

get_closest_value_LastWins(obj, target) ==
    LET numeric_keys == SelectSeq(obj, LAMBDA e : e.key.isnum)
        best == CHOOSE i \in 1..Len(numeric_keys) :
                  /\ \A j \in 1..Len(numeric_keys) :
                        Abs(numeric_keys[i].key.val - target)
                           <= Abs(numeric_keys[j].key.val - target)
                  /\ \A j \in (i + 1)..Len(numeric_keys) :
                        Abs(numeric_keys[i].key.val - target)
                           < Abs(numeric_keys[j].key.val - target)
    IN IF numeric_keys = <<>> THEN obj[1] ELSE numeric_keys[best]

\* Utils.get_closest_value (lines 264-305) on a non-empty dictionary, given
\* as its entries in insertion order
get_closest_value(obj, target) ==
    LET numeric_keys == SelectSeq(obj, LAMBDA e : e.key.isnum)
    IN IF numeric_keys = <<>> THEN obj[1]
       ELSE numeric_keys[ScanClosest(numeric_keys, target, 1, 0)]

\* ------------------------------------------------------- the planner
\* A WorkItem (DownloadItem.objects.create): the fields the claims read,
\* and h_sequence, the sequence argument it was created with (a history
\* field, not stored by the program).
Item(item_type, file_path, source_url, quality, is_encrypted, sequence) ==
    [item_type |-> item_type, file_path |-> file_path,
     source_url |-> source_url, quality |-> quality,
     is_encrypted |-> is_encrypted, h_sequence |-> sequence]

\* sources.get(key): the entry of a key in a dictionary, <<>> when absent
Lookup(sources, text) == SelectSeq(sources, LAMBDA e : e.key.text = text)

SourceQuality_LowestForAuto(streams, quality) ==
    LET sources == streams.sources
        picked ==
            IF quality.text \in {"Auto", "Highest"} THEN streams.minQuality
            ELSE IF quality.text = "Lowest" THEN streams.minQuality
            ELSE IF Lookup(sources, quality.text) # <<>> THEN quality
            ELSE get_closest_value(sources,
                    IF quality.isnum THEN quality.val ELSE 720).key
    IN IF Lookup(sources, picked.text) = <<>> THEN Word("auto") ELSE picked

\* the quality selection of create_video_download_item (lines 941-956)
SourceQuality(streams, quality) ==
    LET sources == streams.sources
        picked ==
            IF quality.text \in {"Auto", "Highest"} THEN streams.maxQuality
            ELSE IF quality.text = "Lowest" THEN streams.minQuality
            ELSE IF Lookup(sources, quality.text) # <<>> THEN quality
            ELSE get_closest_value(sources,
                    IF quality.isnum THEN quality.val ELSE 720).key
    IN IF Lookup(sources, picked.text) = <<>> THEN Word("auto") ELSE picked

EncryptedGate_Ignored(streams, allowed) == FALSE

\* lines 929-932: the item is refused when the asset has no streams or
\* they are encrypted, and the user does not continue on encrypted content
EncryptedGate(streams, allowed) ==
    (~streams.present \/ streams.isEncrypted) /\ ~allowed

\* create_video_download_item (lines 918-990): <<>> for None
create_video_download_item(task, lecture_data, chapter_path, sequence) ==
    LET streams == lecture_data.streams
        sources == streams.sources
        source_quality == SourceQuality(streams, task.video_quality)
        source_info == Lookup(sources, source_quality.text)
        lecture_title == sanitize_filename(lecture_data.title)
        filename == get_sequence_name(sequence, task.total_items,
                        lecture_title \o <<".", "mp4">>, ". ",
                        chapter_path, task.seq_zero_left)
    IN IF EncryptedGate(streams, task.continue_downloading_encrypted)
       THEN <<>>
       ELSE IF sources = <<>> THEN <<>>
       ELSE IF source_info = <<>> \/ source_info[1].url = "" THEN <<>>
       ELSE <<Item("video", filename, source_info[1].url,
                   source_quality.text,
                   streams.isEncrypted, sequence)>>

\* create_article_download_item (lines 993-1021)
create_article_download_item(task, lecture_data, chapter_path, sequence) ==
    LET lecture_title == sanitize_filename(lecture_data.title)
    IN Item("article",
            get_sequence_name(sequence, task.total_items,
                lecture_title \o <<".", "html">>, ". ", chapter_path,
                task.seq_zero_left),
            "body", "Article", FALSE, sequence)

\* create_file_download_item (lines 1024-1073): <<>> for None
create_file_download_item(task, lecture_data, chapter_path, sequence) ==
    LET lecture_title == sanitize_filename(lecture_data.title)
    IN IF lecture_data.file_url = "" THEN <<>>
       ELSE <<Item("attachment",
                   get_sequence_name(sequence, task.total_items,
                       lecture_title \o <<".", "pdf">>, ". ", chapter_path,
                       task.seq_zero_left),
                   lecture_data.file_url, "File", FALSE, sequence)>>

\* lines 1091-1104: the url of the first caption in a selected language,
\* else of the first caption
SubtitleUrl(captions, selected_languages) ==
    LET matching == SelectSeq(captions,
                       LAMBDA c : \E k \in 1..Len(selected_languages) :
                                     selected_languages[k] = c.video_label)
    IN IF matching # <<>> /\ matching[1].url # "" THEN matching[1].url
       ELSE captions[1].url

\* create_subtitle_download_item (lines 1076-1132): <<>> for None
create_subtitle_download_item(task, lecture_data, chapter_path, sequence, selected_subtitle) ==
    LET captions == lecture_data.captions
        lecture_title == sanitize_filename(lecture_data.title)
    IN IF captions = <<>> \/ selected_subtitle = <<>> THEN <<>>
       ELSE IF SubtitleUrl(captions, selected_subtitle) = "" THEN <<>>
       ELSE <<Item("subtitle",
                   get_sequence_name(sequence, task.total_items,
                       lecture_title \o <<".", "srt">>, ". ", chapter_path,
                       task.seq_zero_left),
                   SubtitleUrl(captions, selected_subtitle),
                   "Subtitle", FALSE, sequence)>>

AttachmentSeparator_NoIndex(attachment_index) == ". "

\* f".{attachment_index} " (lines 1165, 1186)
AttachmentSeparator(attachment_index) ==
    "." \o ToString(attachment_index) \o " "

\* create_attachment_download_item (lines 1135-1207): <<>> for None
create_attachment_download_item(task, attachment_data, chapter_path, sequence, attachment_index) ==
    LET title == sanitize_filename(attachment_data.title)
        named(ext) == get_sequence_name(sequence, task.total_items,
                          title \o <<".">> \o ext,
                          AttachmentSeparator(attachment_index),
                          chapter_path, task.seq_zero_left)
    IN IF attachment_data.download_urls
       THEN IF attachment_data.file_url = "" THEN <<>>
            ELSE <<Item("attachment",
                        named(attachment_data.file_extension),
                        attachment_data.file_url,
                        "Attachment", FALSE, sequence)>>
       ELSE IF attachment_data.external_url # ""
       THEN <<Item("attachment", named(<<"html">>), "html", "Attachment",
                   FALSE, sequence)>>
       ELSE <<>>

\* create_url_download_item (lines 1210-1241)
create_url_download_item(task, lecture_data, chapter_path, sequence, item_type) ==
    LET lecture_title == sanitize_filename(lecture_data.title)
    IN Item("url",
            get_sequence_name(sequence, task.total_items,
                lecture_title \o <<".", "html">>, ". ", chapter_path,
                task.seq_zero_left),
            "html", "Attachment", FALSE, sequence)

\* process_lecture_for_download (lines 850-915)
process_lecture_for_download(task, lecture_data, chapter_path, sequence) ==
    LET item_class == lecture_data.class
        asset_type == lecture_data.asset_type
        supplementary_assets == lecture_data.supplementary_assets
        lecture_items ==
            IF item_class = "quiz"
            THEN <<create_url_download_item(task, lecture_data,
                       chapter_path, sequence, "quiz")>>
            ELSE IF item_class = "practice"
            THEN <<create_url_download_item(task, lecture_data,
                       chapter_path, sequence, "practice")>>
            ELSE IF asset_type = "article"
            THEN <<create_article_download_item(task, lecture_data,
                       chapter_path, sequence)>>
            ELSE IF asset_type \in {"video", "videomashup"}
            THEN (IF task.download_type \in {0, 1}
                  THEN create_video_download_item(task, lecture_data,
                           chapter_path, sequence)
                  ELSE <<>>)
                 \o
                 (IF ~task.skip_subtitles /\ task.selected_subtitle # <<>>
                  THEN create_subtitle_download_item(task, lecture_data,
                           chapter_path, sequence, task.selected_subtitle)
                  ELSE <<>>)
            ELSE IF asset_type \in {"file", "e-book", "presentation"}
            THEN create_file_download_item(task, lecture_data,
                     chapter_path, sequence)
            ELSE <<>>
        attachment_items ==
            IF task.download_type \in {0, 2}
            THEN Flatten([idx \in 1..Len(supplementary_assets) |->
                    create_attachment_download_item(task,
                        supplementary_assets[idx], chapter_path, sequence,
                        idx)])
            ELSE <<>>
    IN lecture_items \o attachment_items

\* course_download_path / chapter_name (lines 809-836), the download path
\* being "d" and the course title "C"
ChapterPath(current_chapter) ==
    "d/C/" \o Str(sanitize_filename(current_chapter.title))

LectureClasses == {"lecture", "quiz", "practice"}

BelowRange_Inclusive(task, sequence) ==
    task.enable_range_download /\ sequence <= task.download_start

\* lines 828-830: 'continue' below the start of the range
BelowRange(task, sequence) ==
    task.enable_range_download /\ sequence < task.download_start

\* lines 828-832: 'break' above the end of the range, when there is one
AboveRange(task, sequence) ==
    /\ task.enable_range_download
    /\ task.download_end > 0
    /\ sequence > task.download_end

\* the loop of prepare_download_items (lines 815-847) from node i on, with
\* the chapter, the counter and the items it has reached
RECURSIVE PlanFrom(_, _, _, _, _, _)
PlanFrom(task, results, i, current_chapter, lecture_sequence, download_items) ==
    IF i > Len(results) THEN download_items
    ELSE IF results[i].class = "chapter"
    THEN PlanFrom(task, results, i + 1, results[i], lecture_sequence,
                  download_items)
    ELSE IF results[i].class \in LectureClasses
            /\ current_chapter.class = "chapter"
    THEN LET sequence == lecture_sequence + 1
         IN IF BelowRange(task, sequence)
            THEN PlanFrom(task, results, i + 1, current_chapter, sequence,
                          download_items)
            ELSE IF AboveRange(task, sequence) THEN download_items
            ELSE PlanFrom(task, results, i + 1, current_chapter, sequence,
                     download_items \o
                     process_lecture_for_download(task, results[i],
                         ChapterPath(current_chapter), sequence))
    ELSE PlanFrom(task, results, i + 1, current_chapter, lecture_sequence,
                  download_items)

\* current_chapter = None (line 815)
NoChapter == [class |-> "none"]

\* prepare_download_items (lines 801-847)
prepare_download_items(task, course_data) ==
    PlanFrom(task, course_data, 1, NoChapter, 0, <<>>)

\* ---- the curricula and the tasks the planner is given
MaxNodes == 5          \* longest curriculum for the range filter
MaxRange == 3          \* largest download_start and download_end
MaxBlock == 2          \* lectures in one chapter of a repeated curriculum
MaxRepeat == 2         \* most repetitions of a chapter
MaxAttach == 2         \* most supplementary assets of a lecture

\* streams as _convert_to_streams returns them for one plain 720 source
PlainStreams ==
    [present |-> TRUE, isEncrypted |-> FALSE,
     sources |-> <<[key |-> Lbl(720), url |-> "v", type |-> "video/mp4"]>>,
     minQuality |-> Lbl(720), maxQuality |-> Lbl(720)]

\* an asset without 'streams'
NoStreams ==
    [present |-> FALSE, isEncrypted |-> FALSE, sources |-> <<>>,
     minQuality |-> Word("auto"), maxQuality |-> Word("auto")]

Node(class, title, asset_type) ==
    [class |-> class, title |-> title, asset_type |-> asset_type,
     stream_urls |-> <<>>, media_license_token |-> FALSE,
     streams |-> NoStreams, captions |-> <<>>, file_url |-> "",
     supplementary_assets |-> <<>>]

\* the k-th supplementary asset: every third one an external link, the
\* others files, all with the same title and extension
Attachment(k) ==
    [title |-> <<"R">>, download_urls |-> k % 3 # 0,
     file_url |-> IF k % 3 # 0 THEN "f" ELSE "",
     file_extension |-> <<"pdf">>,
     external_url |-> IF k % 3 # 0 THEN "" ELSE "x"]

Video(title, captions, n) ==
    [Node("lecture", title, "video") EXCEPT
        !.streams = PlainStreams,
        !.captions = captions,
        !.supplementary_assets = [k \in 1..n |-> Attachment(k)]]

\* all sequences over S of length at most n
SeqsUpTo(S, n) == UNION {[1..k -> S] : k \in 0..n}

\* a DownloadTask row as created (total_items = 0, models.py line 85) with
\* the user's preferences
BaseTask ==
    [download_type |-> 0, video_quality |-> Word("Auto"),
     skip_subtitles |-> FALSE, selected_subtitle |-> <<"en">>,
     enable_range_download |-> FALSE, download_start |-> 1,
     download_end |-> 0, total_items |-> 0, seq_zero_left |-> FALSE,
     continue_downloading_encrypted |-> FALSE]

\* download_course_task lines 49-57, first run: the plan is made and
\* total_items is stored; an empty plan raises before line 55
PlanCall ==
    /\ plan.pc = "start"
    /\ LET download_items == prepare_download_items(plan.task,
                                                    plan.course_data)
       IN plan' = [plan EXCEPT
              !.pc = "planned",
              !.items = download_items,
              !.first = download_items,
              !.task.total_items =
                  IF download_items = <<>> THEN @ ELSE Len(download_items)]
    /\ UNCHANGED <<engVars, runVars, hlsVars, lib>>

\* the run failed and the task is retried (views.py lines 112-138):
\* download_course_task plans again for the stored row
PlanRetried ==
    /\ plan.pc = "planned"
    /\ LET download_items == prepare_download_items(plan.task,
                                                    plan.course_data)
       IN plan' = [plan EXCEPT
              !.pc = "replanned",
              !.items = download_items,
              !.task.total_items =
                  IF download_items = <<>> THEN @ ELSE Len(download_items)]
    /\ UNCHANGED <<engVars, runVars, hlsVars, lib>>

PlanInit(pc, curricula, tasks_) ==
    /\ EngOff
    /\ RunOff
    /\ HlsOff
    /\ lib = [pc |-> "off"]
    /\ \E cd \in curricula, t \in tasks_ :
          plan = [pc |-> pc, raw |-> cd, course_data |-> cd, task |-> t,
                  items |-> <<>>, first |-> <<>>]

\* Curricula start with a chapter: fetch_course_content makes the first
\* node one (udemy_service.py lines 333-340).  For the range filter:
\* chapters, quizzes and articles under every range.  For the file names:
\* a chapter of at most MaxBlock lectures of every kind, repeated, with a
\* plain title and one that sanitize_filename rewrites to "A-".
InitPlan ==
    LET Titles == {<<"A">>, <<".", "A", "/">>}
        RangeNodes ==
            {Node("chapter", <<"A">>, ""), Node("quiz", <<"A">>, ""),
             Node("lecture", <<"A">>, "article")}
        RangeCurricula ==
            {<<Node("chapter", <<"A">>, "")>> \o tail :
                tail \in SeqsUpTo(RangeNodes, MaxNodes - 1)}
        RangeTasks ==
            {[BaseTask EXCEPT !.enable_range_download = e,
                              !.download_start = s, !.download_end = n,
                              !.seq_zero_left = z] :
                e \in BOOLEAN, s \in 0..MaxRange, n \in 0..MaxRange,
                z \in BOOLEAN}
        LectureNodes ==
            {Video(t, <<[video_label |-> IF t = <<"A">> THEN "en" ELSE "fr",
                         url |-> "c"]>>, MaxAttach) :
                t \in Titles}
            \cup {Video(<<"A">>, <<>>, 0),
                  Node("quiz", <<"A">>, ""), Node("practice", <<"A">>, ""),
                  Node("lecture", <<"A">>, "article"),
                  [Node("lecture", <<"A">>, "file") EXCEPT !.file_url = "f"]}
        RECURSIVE Repeat(_, _)
        Repeat(block, r) ==
            IF r = 0 THEN <<>> ELSE block \o Repeat(block, r - 1)
        RepeatedCurricula ==
            {Repeat(<<Node("chapter", t, "")>> \o ls, r) :
                t \in Titles, ls \in SeqsUpTo(LectureNodes, MaxBlock),
                r \in 1..MaxRepeat}
        PlanTasks ==
            {[BaseTask EXCEPT !.download_type = d, !.skip_subtitles = k,
                              !.seq_zero_left = z] :
                d \in 0..2, k \in BOOLEAN, z \in BOOLEAN}
    IN \/ PlanInit("start", RangeCurricula, RangeTasks)
       \/ PlanInit("start", RepeatedCurricula, PlanTasks)

NextPlan == PlanCall \/ PlanRetried

SpecPlan == InitPlan /\ [][NextPlan]_vars


\* ------------------------------------------------- claims on the planner
\* the original position of node k: its rank among the lecture, quiz and
\* practice nodes of the curriculum
Position(results, k) ==
    Cardinality({j \in 1..k : results[j].class \in LectureClasses})

Paths_(items) == [i \in 1..Len(items) |-> items[i].file_path]

\* C13: planning is idempotent: the plan made again for the same task on
\* the same curriculum and configuration, total_items having been set by
\* the first run, has the same file_path values in the same order.
C13_IdempotentPlanning ==
    plan.pc = "replanned" => Paths_(plan.items) = Paths_(plan.first)

\* C14: within one plan no two WorkItems have the same file_path, also
\* with equal chapter and lecture titles and with a lecture that has a
\* video, a subtitle and several supplementary attachments.
C14_UniquePaths ==
    plan.pc \in {"planned", "replanned"} =>
        \A i, j \in 1..Len(plan.items) :
            i # j => plan.items[i].file_path # plan.items[j].file_path

\* two chapters of the same title, each with the same video lecture with a
\* subtitle and two attachments
C14_Witness ==
    /\ plan.pc = "planned"
    /\ Len(plan.items) = 8
    /\ Paths_(plan.items) =
          <<"d/C/A/1. A.mp4", "d/C/A/1. A.srt", "d/C/A/1.1 R.pdf",
            "d/C/A/1.2 R.pdf", "d/C/A/2. A.mp4", "d/C/A/2. A.srt",
            "d/C/A/2.1 R.pdf", "d/C/A/2.2 R.pdf">>

\* ------------------------------------------------ the catalog's streams
MaxStreams == 2        \* most entries of stream_urls / media_sources

\* '/encrypted-files' in url (line 489), on the urls of the model
IsEncryptedUrl(url) ==
    url \in {"https://h/encrypted-files/" \o name :
                name \in {"360", "720", "auto"}}

\* sources[key] = value (line 507): a new key is added last, a key already
\* there keeps its place
DictSet(sources, entry) ==
    IF Lookup(sources, entry.key.text) = <<>> THEN Append(sources, entry)
    ELSE [k \in 1..Len(sources) |->
             IF sources[k].key.text = entry.key.text THEN entry
             ELSE sources[k]]

Track_FirstSeen(acc, q) ==
    [acc EXCEPT !.min = IF @ = -1 THEN q ELSE @,
                !.max = IF @ = -1 THEN q ELSE @]

\* min(min_quality, q) and max(max_quality, q) (lines 516-517, 529-530);
\* -1 stands for the infinities of lines 484-485
Track(acc, q) ==
    [acc EXCEPT !.min = IF @ = -1 \/ q < @ THEN q ELSE @,
                !.max = IF @ = -1 \/ q > @ THEN q ELSE @]

\* lines 524-537: the qualities of the loaded playlist are merged
RECURSIVE MergePlaylist(_, _, _, _)
MergePlaylist(acc, playlist, i, video_type) ==
    IF i > Len(playlist) THEN acc
    ELSE LET item == playlist[i]
             tracked == Track(acc, item.quality)
         IN MergePlaylist(
               IF Lookup(acc.sources, ToString(item.quality)) = <<>>
               THEN [tracked EXCEPT !.sources = Append(@,
                        [key |-> Lbl(item.quality), url |-> item.url,
                         type |-> video_type])]
               ELSE tracked,
               playlist, i + 1, video_type)

\* the loop of lines 495-537 from stream i on; playlist is what
\* M3U8Service.load_playlist gives for an 'auto' source, <<>> when it fails
RECURSIVE ConvertFrom(_, _, _, _, _)
ConvertFrom(stream_urls, i, is_encrypted, playlist, acc) ==
    IF i > Len(stream_urls) THEN acc
    ELSE LET video == stream_urls[i]
             set == [acc EXCEPT !.sources = DictSet(@,
                        [key |-> video.label, url |-> video.url,
                         type |-> video.type])]
         IN ConvertFrom(stream_urls, i + 1, is_encrypted, playlist,
               IF video.type = "application/dash+xml" THEN acc
               ELSE IF video.url = "" THEN acc
               ELSE IF video.label.text # "auto"
               THEN IF video.label.isnum THEN Track(set, video.label.val)
                    ELSE set
               ELSE IF ~is_encrypted
               THEN MergePlaylist(set, playlist, 1, video.type)
               ELSE set)

\* lines 486-491: without a licence token the streams are encrypted when
\* every one of them is under /encrypted-files
IsEncrypted(stream_urls, is_encrypted) ==
    IF is_encrypted THEN TRUE
    ELSE SelectSeq(stream_urls, LAMBDA s : ~IsEncryptedUrl(s.url)) = <<>>

\* UdemyService._convert_to_streams (lines 465-554) on a non-empty list
_convert_to_streams(stream_urls, is_encrypted, playlist) ==
    LET filtered_streams ==
            SelectSeq(stream_urls, LAMBDA s : ~IsEncryptedUrl(s.url))
        encrypted == IsEncrypted(stream_urls, is_encrypted)
        kept == IF ~is_encrypted /\ filtered_streams # <<>>
                THEN filtered_streams ELSE stream_urls
        acc == ConvertFrom(kept, 1, encrypted, playlist,
                           [sources |-> <<>>, min |-> -1, max |-> -1])
        str(q) == IF q # -1 THEN Lbl(q)
                  ELSE IF Lookup(acc.sources, "auto") # <<>>
                  THEN Word("auto") ELSE Word("None")
    IN [present |-> TRUE, isEncrypted |-> encrypted,
        sources |-> acc.sources,
        minQuality |-> str(acc.min), maxQuality |-> str(acc.max)]

\* UdemyService._prepare_stream_source (lines 429-458) for one node
_prepare_stream_source(lecture, playlist) ==
    IF /\ lecture.class = "lecture"
       /\ lecture.asset_type \in {"video", "videomashup"}
       /\ lecture.stream_urls # <<>>
    THEN [lecture EXCEPT
             !.streams = _convert_to_streams(lecture.stream_urls,
                             lecture.media_license_token, playlist),
             !.stream_urls = <<>>]
    ELSE lecture

\* fetch_course_content line 347: the streams of every lecture are prepared
\* before the curriculum is handed to the planner
PrepareStreams(playlist) ==
    /\ plan.pc = "fetched"
    /\ plan' = [plan EXCEPT
           !.pc = "start",
           !.course_data = [k \in 1..Len(plan.course_data) |->
               _prepare_stream_source(plan.course_data[k], playlist)]]
    /\ UNCHANGED <<engVars, runVars, hlsVars, lib>>

\* the playlists M3U8Service.load_playlist gives: none (it failed), or two
\* qualities
Playlists ==
    {<<>>, <<[quality |-> 360, url |-> "m360"],
             [quality |-> 1080, url |-> "m1080"]>>}

\* a chapter with one video lecture as fetched, every entry of its
\* stream_urls / media_sources with a label (lower case), a type and a
\* 'file' or 'src'; and the preferences the video item depends on
InitStreams ==
    LET StreamUrls ==
            {[label |-> l, type |-> ty, url |-> h \o l.text] :
                l \in {Lbl(360), Lbl(720), Word("auto")},
                ty \in {"video/mp4", "application/dash+xml"},
                h \in {"https://h/", "https://h/encrypted-files/"}}
        curricula ==
            {<<Node("chapter", <<"A">>, ""),
               [Node("lecture", <<"A">>, "video") EXCEPT
                   !.stream_urls = su, !.media_license_token = tk]>> :
                su \in SeqsUpTo(StreamUrls, MaxStreams), tk \in BOOLEAN}
        tasks_ ==
            {[BaseTask EXCEPT !.continue_downloading_encrypted = a,
                              !.video_quality = q, !.download_type = d] :
                a \in BOOLEAN,
                q \in {Word("Auto"), Word("Highest"), Word("Lowest"),
                       Lbl(480), Lbl(720)},
                d \in {0, 2}}
    IN PlanInit("fetched", curricula, tasks_)

NextStreams ==
    \/ \E playlist \in Playlists : PrepareStreams(playlist)
    \/ NextPlan

SpecStreams == InitStreams /\ [][NextStreams]_vars

\* the video items of the plan
VideoItems == SelectSeq(plan.items, LAMBDA it : it.item_type = "video")

\* the video lecture has sources, all of them under /encrypted-files/, and
\* a licence token
OnlyEncrypted(lecture) ==
    /\ lecture.stream_urls # <<>>
    /\ \A k \in 1..Len(lecture.stream_urls) :
          IsEncryptedUrl(lecture.stream_urls[k].url)
    /\ lecture.media_license_token

MaxPlaylist == 4       \* most streams of a playlist

\* the heights a playlist offers, and the targets asked for
Qualities == {144, 360, 720, 1080}

Targets == {500, 540, 720}

\* M3U8Service.get_quality (m3u8_service.py lines 228-256): <<>> for None
get_quality(playlist, target_quality) ==
    LET exact == SelectSeq(playlist, LAMBDA s : s.quality = target_quality)
        \* lines 245-254: the stream kept after stream i, <<>> before any
        RECURSIVE Scan(_, _)
        Scan(i, closest_stream) ==
            IF i > Len(playlist) THEN closest_stream
            ELSE LET diff == Abs(playlist[i].quality - target_quality)
                 IN Scan(i + 1,
                       IF closest_stream = <<>>
                          \/ diff < Abs(closest_stream[1].quality
                                          - target_quality)
                       THEN <<playlist[i]>> ELSE closest_stream)
    IN IF playlist = <<>> THEN <<>>
       ELSE IF exact # <<>> THEN <<exact[1]>>
       ELSE Scan(1, <<>>)

\* playlist.get_quality(target)
CallGetQuality ==
    /\ lib.pc = "call"
    /\ lib' = [lib EXCEPT
           !.pc = "done", !.fn = "get_quality",
           !.entries = lib.playlist,
           !.result = get_quality(lib.playlist, lib.target)]
    /\ UNCHANGED <<engVars, runVars, hlsVars, plan>>

\* Utils.get_closest_value(sources, target) on the dictionary that has the
\* qualities of the playlist as keys (tasks.py line 952): 'auto' first when
\* the sources have it, then str(quality) in the order of first appearance
CallGetClosestValue(auto) ==
    LET RECURSIVE Dict(_, _)
        Dict(i, sources) ==
            IF i > Len(lib.playlist) THEN sources
            ELSE Dict(i + 1, DictSet(sources,
                     [key |-> Lbl(lib.playlist[i].quality),
                      quality |-> lib.playlist[i].quality,
                      url |-> lib.playlist[i].url]))
        obj == Dict(1, IF auto THEN <<[key |-> Word("auto"), quality |-> 0,
                                      url |-> "auto"]>>
                       ELSE <<>>)
    IN /\ lib.pc = "call"
       /\ obj # <<>>
       /\ lib' = [lib EXCEPT
              !.pc = "done", !.fn = "get_closest_value",
              !.entries = SelectSeq(obj, LAMBDA e : e.key.isnum),
              !.result = <<get_closest_value(obj, lib.target)>>]
       /\ UNCHANGED <<engVars, runVars, hlsVars, plan>>

InitQuality ==
    /\ EngOff
    /\ RunOff
    /\ HlsOff
    /\ PlanOff
    /\ \E qs \in SeqsUpTo(Qualities, MaxPlaylist), t \in Targets :
          lib = [pc |-> "call", fn |-> "",
                 playlist |-> [i \in 1..Len(qs) |->
                                  [quality |-> qs[i], url |-> ToString(i)]],
                 target |-> t, entries |-> <<>>, result |-> <<>>]

NextQuality ==
    \/ CallGetQuality
    \/ \E auto \in BOOLEAN : CallGetClosestValue(auto)

SpecQuality == InitQuality /\ [][NextQuality]_vars

\* C16: a nearest-quality lookup (get_quality on a playlist,
\* get_closest_value on the numeric keys of a dictionary) returns the first
\* entry, in input order, among those at the least absolute distance from the
\* target; so an entry equal to the target is returned when there is one,
\* and for 144, 360, 720, 1080 and the target 500 the result is 360.
C16_NearestQuality ==
    (lib.pc = "done" /\ lib.entries # <<>>) =>
        LET P == lib.entries
            D(i) == Abs(P[i].quality - lib.target)
            first == CHOOSE k \in 1..Len(P) :
                        /\ \A j \in 1..Len(P) : D(k) <= D(j)
                        /\ \A j \in 1..(k - 1) : D(j) > D(k)
        IN /\ lib.result = <<P[first]>>
           /\ (\E i \in 1..Len(P) : P[i].quality = lib.target)
                 => lib.result[1].quality = lib.target
           /\ ([i \in 1..Len(P) |-> P[i].quality] = <<144, 360, 720, 1080>>
               /\ lib.target = 500)
                 => lib.result[1].quality = 360

\* 360 and 720 are both 180 away from 540 and 360 comes first; both
\* lookups return it
C16_Witness ==
    /\ lib.pc = "done"
    /\ lib.fn = "get_closest_value"
    /\ [i \in 1..Len(lib.entries) |-> lib.entries[i].quality]
          = <<144, 360, 720, 1080>>
    /\ lib.target = 540
    /\ lib.result[1].quality = 360

\* ------------------------------------------------ WebVTT to SubRip
\* A text is the sequence of its pieces: "\n", " ", "-->", ":", ".", ",",
\* a run of digits, or a word.
MaxLines == 4          \* most lines of a WebVTT text

Digits == {"00", "01", "02", "000", "500"}

\* '\n'.join(lines)
RECURSIVE JoinLines(_)
JoinLines(lines) ==
    IF lines = <<>> THEN <<>>
    ELSE IF Len(lines) = 1 THEN lines[1]
    ELSE lines[1] \o <<"\n">> \o JoinLines(Tail(lines))

\* text.split('\n')
RECURSIVE SplitLines(_, _)
SplitLines(text, line) ==
    IF text = <<>> THEN <<line>>
    ELSE IF Head(text) = "\n" THEN <<line>> \o SplitLines(Tail(text), <<>>)
    ELSE SplitLines(Tail(text), Append(line, Head(text)))

RewriteTimestamps_Kept(line) == line

\* re.sub(r'(\d+):(\d+):(\d+)\.(\d+)', r'\1:\2:\3,\4', line) (line 627)
RewriteTimestamps(line) ==
    LET Match(i) ==
            /\ i + 6 <= Len(line)
            /\ \A k \in {0, 2, 4, 6} : line[i + k] \in Digits
            /\ line[i + 1] = ":"
            /\ line[i + 3] = ":"
            /\ line[i + 5] = "."
        RECURSIVE Sub(_)
        Sub(i) ==
            IF i > Len(line) THEN <<>>
            ELSE IF Match(i)
            THEN <<line[i], ":", line[i + 2], ":", line[i + 4], ",",
                   line[i + 6]>> \o Sub(i + 7)
            ELSE <<line[i]>> \o Sub(i + 1)
    IN Sub(1)

\* convert_vtt_to_srt (tasks.py lines 604-651) on a text
convert_vtt_to_srt(vtt_content) ==
    LET lines == SplitLines(Strip(vtt_content, {" ", "\n"}), <<>>)
        Stripped(i) == Strip(lines[i], {" "})
        Arrow(l) == \E k \in 1..Len(l) : l[k] = "-->"
        StartsWith(l, word) == l # <<>> /\ l[1] = word
        \* lines 636-638: the text lines of a cue from line i on, then the
        \* rest of the conversion
        RECURSIVE Convert(_, _, _), CueText(_, _, _)
        CueText(i, subtitle_count, srt_lines) ==
            IF i <= Len(lines) /\ Stripped(i) # <<>> /\ ~Arrow(lines[i])
            THEN CueText(i + 1, subtitle_count,
                         Append(srt_lines, Stripped(i)))
            ELSE Convert(i, subtitle_count, Append(srt_lines, <<>>))
        Convert(i, subtitle_count, srt_lines) ==
            IF i > Len(lines) THEN srt_lines
            ELSE LET line == Stripped(i)
                 IN IF StartsWith(line, "WEBVTT") \/ line = <<>>
                       \/ StartsWith(line, "NOTE")
                    THEN Convert(i + 1, subtitle_count, srt_lines)
                    ELSE IF Arrow(line)
                    THEN CueText(i + 1, subtitle_count + 1,
                            srt_lines
                               \o <<<<ToString(subtitle_count + 1)>>,
                                    RewriteTimestamps(line)>>)
                    ELSE Convert(i + 1, subtitle_count, srt_lines)
    IN JoinLines(Convert(1, 0, <<>>))

\* srt_content = convert_vtt_to_srt(subtitle_content) (tasks.py line 490)
CallConvertVttToSrt ==
    /\ lib.pc = "call"
    /\ lib' = [lib EXCEPT !.pc = "done", !.fn = "convert_vtt_to_srt",
                          !.result = convert_vtt_to_srt(lib.vtt_content)]
    /\ UNCHANGED <<engVars, runVars, hlsVars, plan>>

\* the subtitle file as fetched: up to MaxLines lines, each a header, a
\* blank line, a comment, a timing line or a line of text
InitVtt ==
    LET Timing(s, e) == <<"00", ":", "00", ":", s, ".", "000", " ", "-->",
                          " ", "00", ":", "00", ":", e, ".", "500">>
        Lines == {<<"WEBVTT">>, <<>>, <<"NOTE", " ", "x">>,
                  Timing("01", "02"), <<"00", ":", "01", ".", "000", " ",
                                        "-->", " ", "00", ":", "02", ".",
                                        "500">>,
                  <<"Hello">>, <<" ", "Hello">>}
    IN /\ EngOff
       /\ RunOff
       /\ HlsOff
       /\ PlanOff
       /\ \E ls \in SeqsUpTo(Lines, MaxLines) :
             lib = [pc |-> "call", fn |-> "",
                    vtt_content |-> JoinLines(ls), result |-> <<>>]

NextVtt == CallConvertVttToSrt

SpecVtt == InitVtt /\ [][NextVtt]_vars

\* The SubRip text the conversion is to give for a WebVTT text, with
\* Text(l) the form a line of cue text is written in: the cues are the
\* lines with "-->" that are neither header nor comment, in input order;
\* block k is the index k, the timing line with "." before the
\* milliseconds of every HH:MM:SS.mmm turned into ",", the lines of text
\* up to the next blank or timing line, and an empty line.
ExpectedSrt(vtt_content, Text(_)) ==
    LET L == SplitLines(Strip(vtt_content, {" ", "\n"}), <<>>)
        S(i) == Strip(L[i], {" "})
        HasArrow(i) == \E k \in 1..Len(L[i]) : L[i][k] = "-->"
        Skipped(i) == S(i) = <<>> \/ S(i)[1] \in {"WEBVTT", "NOTE"}
        CueLines == {i \in 1..Len(L) : HasArrow(i) /\ ~Skipped(i)}
        n == Cardinality(CueLines)
        cue == CHOOSE f \in [1..n -> CueLines] :
                  \A a, b \in 1..n : a < b => f[a] < f[b]
        Comma(l) ==
            [p \in 1..Len(l) |->
                IF /\ l[p] = "."
                   /\ p >= 6
                   /\ p + 1 <= Len(l)
                   /\ {l[p - 5], l[p - 3], l[p - 1], l[p + 1]} \subseteq Digits
                   /\ l[p - 4] = ":"
                   /\ l[p - 2] = ":"
                THEN "," ELSE l[p]]
        IsText(j) == S(j) # <<>> /\ ~HasArrow(j)
        TextEnd(i) == CHOOSE e \in i..Len(L) :
                         /\ \A j \in (i + 1)..e : IsText(j)
                         /\ e < Len(L) => ~IsText(e + 1)
        Block(k) == <<<<ToString(k)>>, Comma(S(cue[k]))>>
                       \o [j \in 1..(TextEnd(cue[k]) - cue[k]) |->
                              Text(L[cue[k] + j])]
                       \o <<<<>>>>
        RECURSIVE Blocks(_)
        Blocks(k) == IF k > n THEN <<>> ELSE Block(k) \o Blocks(k + 1)
    IN JoinLines(Blocks(1))

\* the text 'WEBVTT\n\n00:00:01.000 --> 00:00:02.500\nHello' and its
\* conversion
ExampleVtt ==
    <<"WEBVTT", "\n", "\n", "00", ":", "00", ":", "01", ".", "000", " ",
      "-->", " ", "00", ":", "00", ":", "02", ".", "500", "\n", "Hello">>

ExampleSrt ==
    <<"1", "\n", "00", ":", "00", ":", "01", ",", "000", " ", "-->", " ",
      "00", ":", "00", ":", "02", ",", "500", "\n", "Hello", "\n">>

NoCue(vtt_content) == \A k \in 1..Len(vtt_content) : vtt_content[k] # "-->"

\* C17 as stated: the conversion gives one block per cue, numbered from 1
\* in input order, with the timing line rewritten and the lines of cue
\* text unchanged; header, blank and comment lines give nothing; the
\* example converts as written and a text without a cue gives the empty
\* string.
C17_TextUnchanged ==
    (lib.pc = "done" /\ lib.fn = "convert_vtt_to_srt") =>
        /\ lib.result = ExpectedSrt(lib.vtt_content, LAMBDA l : l)
        /\ lib.vtt_content = ExampleVtt => lib.result = ExampleSrt
        /\ NoCue(lib.vtt_content) => lib.result = <<>>

\* C17, amended: the same, with every line of cue text written without its
\* leading and trailing whitespace.
C17_TextStripped ==
    (lib.pc = "done" /\ lib.fn = "convert_vtt_to_srt") =>
        /\ lib.result
              = ExpectedSrt(lib.vtt_content, LAMBDA l : Strip(l, {" "}))
        /\ lib.vtt_content = ExampleVtt => lib.result = ExampleSrt
        /\ NoCue(lib.vtt_content) => lib.result = <<>>

\* the example of the claim has been converted
C17_Witness ==
    /\ lib.pc = "done"
    /\ lib.fn = "convert_vtt_to_srt"
    /\ lib.vtt_content = ExampleVtt
    /\ lib.result = ExampleSrt

\* C18: the sidecar <target>.mtd is on disk when a byte of the transfer is
\* written to <target>.tmp; it is deleted only by a transfer that completes
\* successfully (start() returns true with the whole resource at <target>,
\* and no cancel() has hit the transfer); after a failed, a paused or a
\* cancelled transfer it is still present.
C18_SidecarLifecycle ==
    [][\A c \in Callers :
          co[c].task # 0 =>
              LET p == co[c].path
                  t == co[c].task
              IN /\ (co[c].pc = "write" /\ co'[c].pc = "read") => fs[p].mtd
                 /\ (fs[p].mtd /\ ~fs'[p].mtd) =>
                       /\ co'[c].pc = "done"
                       /\ co'[c].ret = "true"
                       /\ fs'[p].target = File(net.R)
                       /\ ~tasks[t].h_hit
                 /\ (/\ tasks'[t].h_gets > 0
                     /\ \/ tasks'[t].status \in {"failed", "paused"}
                        \/ tasks'[t].h_hit)
                       => fs'[p].mtd
      ]_vars

\* C19: the file at <target> changes only by the rename of <target>.tmp
\* made by a transfer that has received all the bytes, never by a write of
\* a transfer in progress; so a file at <target> that the engine produced
\* holds the complete resource.
C19_TempFileConvention ==
    [][\A p \in Paths :
          /\ fs'[p].target # fs[p].target =>
                /\ fs[p].tmp.exists
                /\ fs'[p].target = fs[p].tmp
                /\ ~fs'[p].tmp.exists
                /\ \E c \in Callers :
                      /\ co[c].path = p
                      /\ co[c].pc = "closing"
                      /\ co'[c].pc = "done"
          /\ (fs'[p].target.exists /\ fs'[p].target # hist.disk0.target)
                => fs'[p].target = File(net.R)
      ]_vars

\* ------------------------------------------ one engine, several sources
\* cleanup_completed() (lines 215-231): under the lock, the entries of the
\* completed, cancelled and failed tasks leave the registry
CleanupCompleted ==
    /\ lock = 0
    /\ downloads' = [id \in {i \in DOMAIN downloads :
                               tasks[downloads[i]].status \notin Terminal}
                        |-> downloads[id]]
    /\ UNCHANGED <<lock, tasks, config, co, fs, net, hist>>
    /\ UNCHANGED <<runVars, hlsVars, libVars>>

\* two callers of one engine that give the path p with the source u or with
\* another source v, each calling download() and start(), with cancel()
\* and cleanup_completed(); pause() is not called
NextPaths ==
    \/ \E c \in Callers, u \in {"u", "v"}, p \in Paths : CallDownload(c, u, p)
    \/ \E c \in Callers : AcquireLock(c)
    \/ \E c \in Callers : CheckRegistry(c)
    \/ \E c \in Callers : CreateTask(c)
    \/ \E c \in Callers : StartCall(c)
    \/ \E c \in Callers, ok \in BOOLEAN : HeadResponse(c, ok)
    \/ \E c \in Callers : SaveMetadata(c)
    \/ \E c \in Callers : GetResponse(c)
    \/ \E c \in Callers : OpenTmp(c)
    \/ \E c \in Callers, len \in 1..MaxChunk : ReadChunk(c, len)
    \/ \E c \in Callers : WriteChunk(c)
    \/ \E c \in Callers : Finish(c)
    \/ \E c \in Callers : Unwind(c)
    \/ \E c \in Callers : RetryWake(c)
    \/ \E t \in TaskIds : Cancel(t)
    \/ CleanupCompleted

\* a resource of one byte, max_retries is 2
InitPaths == EngInit({1, 2}, {1}, {[max_retries |-> 2, chunk_size |-> 1]})

SpecPaths == InitPaths /\ [][NextPaths]_vars

\* C20: no two DownloadTask instances of one engine have a transfer running
\* to the same target path at the same time.
C20_OneTransferPerPath ==
    \A c, d \in Callers :
        (/\ co[c].pc \in Running
         /\ co[d].pc \in Running
         /\ co[c].path = co[d].path)
        => co[c].task = co[d].task

\* --------------------------------------------- resuming a paused task
\* DownloadEngine.resume_download(file_path) (lines 104-140): the task is
\* taken from download() with the url of the sidecar, given the size of
\* <target> and the status PAUSED; None without a sidecar
ResumeDownload(c, p) ==
    LET id == _generate_download_id("u", p)
        known == id \in DOMAIN downloads
        t == IF known THEN downloads[id] ELSE Len(tasks) + 1
        tk == IF known THEN tasks ELSE Append(tasks, NewTask("u", p))
    IN /\ co[c].pc = "idle"
       /\ lock = 0
       /\ IF fs[p].mtd
          THEN /\ tasks' = [tk EXCEPT
                      ![t].downloaded_size =
                          IF fs[p].target.exists
                          THEN Len(fs[p].target.data) ELSE 0,
                      ![t].status = "paused"]
               /\ downloads' = IF known THEN downloads
                               ELSE (id :> t) @@ downloads
               /\ co' = [co EXCEPT ![c].pc = "have_task", ![c].url = "u",
                                   ![c].path = p, ![c].id = id,
                                   ![c].task = t]
          ELSE /\ co' = [co EXCEPT ![c].pc = "ctl_done", ![c].ret = "none"]
               /\ UNCHANGED <<tasks, downloads>>
       /\ UNCHANGED <<lock, config, fs, net, hist>>
       /\ UNCHANGED <<runVars, hlsVars, libVars>>

\* await task.resume() by the holder of the task (lines 670-675); ret
\* records whether the task was paused
ResumeAwait(c) ==
    LET t == co[c].task IN
    /\ co[c].pc = "have_task"
    /\ tasks' = [tasks EXCEPT
           ![t].paused = FALSE,
           ![t].status = IF @ = "paused" THEN "downloading" ELSE @]
    /\ co' = [co EXCEPT ![c].pc = "ctl_done",
                        ![c].ret = IF tasks[t].status = "paused"
                                   THEN "resumed" ELSE "noop"]
    /\ UNCHANGED <<downloads, lock, config, fs, net, hist>>
    /\ UNCHANGED <<runVars, hlsVars, libVars>>

\* DownloadEngine.resume_download_by_id (lines 168-183): task.resume() is a
\* coroutine function and its coroutine is never awaited, so the call
\* changes nothing; True is returned for a paused task
ResumeDownloadById(c, id) ==
    LET found == id \in DOMAIN downloads
        ok == found /\ tasks[downloads[id]].status = "paused"
    IN /\ co[c].pc = "idle"
       /\ lock = 0
       /\ co' = [co EXCEPT ![c].pc = "ctl_done", ![c].id = id,
                           ![c].task = IF found THEN downloads[id] ELSE 0,
                           ![c].ret = IF ok THEN "true" ELSE "false"]
       /\ UNCHANGED <<downloads, lock, tasks, config, fs, net, hist>>
       /\ UNCHANGED <<runVars, hlsVars, libVars>>

\* resume() or resume_download_by_id has been called on a paused task
ResumedBy(c) == co[c].pc = "ctl_done" /\ co[c].ret \in {"resumed", "true"}

\* the steps of a transfer that is not cancelled and meets no exception
Progress(c) ==
    \/ AcquireLock(c)
    \/ CheckRegistry(c)
    \/ CreateTask(c)
    \/ StartCall(c)
    \/ \E ok \in BOOLEAN : HeadResponse(c, ok)
    \/ SaveMetadata(c)
    \/ GetResponse(c)
    \/ OpenTmp(c)
    \/ \E len \in 1..MaxChunk : ReadChunk(c, len)
    \/ PausedWait(c)
    \/ WriteChunk(c)
    \/ Finish(c)

\* a healthy server, a disk that holds nothing or a proper prefix in
\* <target>.tmp with its sidecar, max_retries of 1 or 2
InitResume ==
    /\ EngInit({1, 2}, 1..MaxLen,
               [max_retries : 1..MaxRetriesCfg, chunk_size : 1..MaxChunk])
    /\ \A p \in Paths :
          fs[p].tmp.exists => Len(fs[p].tmp.data) < Len(net.R)

\* caller 1 transfers with download() and start(); caller 2 holds the
\* controls: pause() until a resume has been made, then resume() on the
\* task obtained from download() or from resume_download(), or
\* resume_download_by_id
NextResume ==
    \/ \E u \in Urls, p \in Paths : CallDownload(1, u, p)
    \/ Progress(1)
    \/ \E u \in Urls, p \in Paths : CallDownload(2, u, p)
    \/ AcquireLock(2)
    \/ CheckRegistry(2)
    \/ CreateTask(2)
    \/ \E t \in TaskIds : ~ResumedBy(2) /\ Pause(t)
    \/ \E p \in Paths : ResumeDownload(2, p)
    \/ ResumeAwait(2)
    \/ \E u \in Urls, p \in Paths :
          ResumeDownloadById(2, _generate_download_id(u, p))

\* the event loop runs a transfer that can take a step, and the server
\* answers
SpecResume == InitResume /\ [][NextResume]_vars /\ WF_vars(Progress(1))

\* C21: once resume() or resume_download_by_id has been called on a paused
\* task (one paused in its transfer, or one re-created from its sidecar by
\* resume_download), with a healthy server and no further pause or cancel
\* the task eventually reaches completed.
C21_ResumeRestarts ==
    \A c \in Callers :
        ResumedBy(c) ~> (/\ co[c].task # 0
                         /\ tasks[co[c].task].status = "completed")

\* C22: the video item of a lecture is made from the source the preference
\* selects: Auto and Highest the greatest numeric quality, Lowest the
\* least, a number that quality when the sources have it and otherwise the
\* nearest numeric quality, and 'auto' when no source has a numeric
\* quality; the item's source_url is the url of that source.
C22_QualitySelection ==
    (plan.pc \in {"planned", "replanned"} /\ VideoItems # <<>>) =>
        LET sources == plan.course_data[2].streams.sources
            N == {sources[k].key.val :
                     k \in {j \in 1..Len(sources) : sources[j].key.isnum}}
            pref == plan.task.video_quality
            it == VideoItems[1]
            chosen == CHOOSE k \in 1..Len(sources) :
                         sources[k].key.text = it.quality
            q == sources[chosen].key.val
        IN /\ \E k \in 1..Len(sources) : sources[k].key.text = it.quality
           /\ it.source_url = sources[chosen].url
           /\ N = {} => it.quality = "auto"
           /\ N # {} =>
                 /\ sources[chosen].key.isnum
                 /\ pref.text \in {"Auto", "Highest"}
                       => \A n \in N : n <= q
                 /\ pref.text = "Lowest" => \A n \in N : q <= n
                 /\ pref.isnum =>
                       /\ pref.val \in N => q = pref.val
                       /\ \A n \in N : Abs(q - pref.val) <= Abs(n - pref.val)

\* sources at 720 and 360 and the preference 480: the item is made from
\* the source at 360
C22_Witness ==
    /\ plan.pc = "planned"
    /\ plan.task.video_quality = Lbl(480)
    /\ Len(plan.course_data[2].streams.sources) = 2
    /\ plan.course_data[2].streams.sources[1].key = Lbl(720)
    /\ Len(VideoItems) = 1
    /\ VideoItems[1].quality = "360"
    /\ VideoItems[1].source_url = "https://h/360"

\* the items of the plan made for the node at place k of the curriculum
ItemsOf(k) ==
    SelectSeq(plan.items,
              LAMBDA it : it.h_sequence = Position(plan.course_data, k))

\* C23: for a lecture whose asset is a file, an e-book or a presentation,
\* the plan holds one attachment item when the download type is both (0) or
\* attachments only (2) and the asset has a download url, and no item of
\* the lecture otherwise; none with videos only (1).
C23_FileItemFilter ==
    (plan.pc \in {"planned", "replanned"} /\ ~plan.task.enable_range_download)
    => \A k \in 1..Len(plan.course_data) :
          LET node == plan.course_data[k] IN
          (/\ node.class = "lecture"
           /\ node.asset_type \in {"file", "e-book", "presentation"}
           /\ node.supplementary_assets = <<>>)
          => IF plan.task.download_type \in {0, 2} /\ node.file_url # ""
             THEN /\ Len(ItemsOf(k)) = 1
                  /\ ItemsOf(k)[1].item_type = "attachment"
             ELSE ItemsOf(k) = <<>>

\* C24: for a video lecture the plan holds, when subtitles are not skipped,
\* one subtitle item for each caption whose language is selected (for every
\* caption when no language is selected), made from the caption's url, and
\* no other subtitle item; it holds none when subtitles are skipped.
C24_SubtitlePolicy ==
    (plan.pc \in {"planned", "replanned"} /\ ~plan.task.enable_range_download)
    => \A k \in 1..Len(plan.course_data) :
          LET node == plan.course_data[k]
              selected == plan.task.selected_subtitle
              subs == SelectSeq(ItemsOf(k),
                                LAMBDA it : it.item_type = "subtitle")
              wanted ==
                  IF plan.task.skip_subtitles THEN <<>>
                  ELSE SelectSeq(node.captions,
                          LAMBDA c : \/ selected = <<>>
                                     \/ \E j \in 1..Len(selected) :
                                           selected[j] = c.video_label)
          IN (node.class = "lecture"
              /\ node.asset_type \in {"video", "videomashup"})
             => /\ Len(subs) = Len(wanted)
                /\ \A i \in 1..Len(subs) : subs[i].source_url = wanted[i].url


\* C25: at the step where a call of start() returns, the status of its
\* task is completed, failed or cancelled, and the call returns true
\* exactly when that status is completed.
C25_StartReturnsTerminal ==
    [][\A c \in Callers :
          (co[c].pc # "done" /\ co'[c].pc = "done")
          => /\ tasks'[co'[c].task].status \in Terminal
             /\ (co'[c].ret = "true")
                <=> (tasks'[co'[c].task].status = "completed")]_vars


\* ------------------------------------------------------------ pause
\* pause() was called on task t while it was downloading, and neither
\* resume() nor cancel() has been called since
PauseInForce(t) ==
    /\ t \in 1..Len(tasks)
    /\ tasks[t].paused
    /\ tasks[t].status = "paused"

\* the start() that c awaits is suspended in the sleep of line 759
Blocked(c) ==
    /\ co[c].pc = "paused_wait"
    /\ tasks[co[c].task].paused
    /\ ~tasks[co[c].task].cancelled

\* two transfers of one engine, caller 1 from the source u and caller 2
\* from the source v, with pause(), resume() and cancel() on both tasks
NextPause ==
    \/ \E p \in Paths : CallDownload(1, "u", p)
    \/ \E p \in Paths : CallDownload(2, "v", p)
    \/ \E c \in Callers : AcquireLock(c)
    \/ \E c \in Callers : CheckRegistry(c)
    \/ \E c \in Callers : CreateTask(c)
    \/ \E c \in Callers : StartCall(c)
    \/ \E c \in Callers, ok \in BOOLEAN : HeadResponse(c, ok)
    \/ \E c \in Callers : SaveMetadata(c)
    \/ \E c \in Callers : GetResponse(c)
    \/ \E c \in Callers : OpenTmp(c)
    \/ \E c \in Callers, len \in 1..MaxChunk : ReadChunk(c, len)
    \/ \E c \in Callers : PausedWait(c)
    \/ \E c \in Callers : WriteChunk(c)
    \/ \E c \in Callers : Finish(c)
    \/ \E c \in Callers : Unwind(c)
    \/ \E t \in TaskIds : Pause(t)
    \/ \E t \in TaskIds : Resume(t)
    \/ \E t \in TaskIds : Cancel(t)

\* a resource of two bytes read in chunks of one byte, max_retries is 1,
\* no fault is injected
InitPause == EngInit({1, 2}, {2}, {[max_retries |-> 1, chunk_size |-> 1]})

SpecPause == InitPause /\ [][NextPause]_vars

\* C26: while a pause is in force on a task, no chunk enters the write
\* stage (only a chunk whose write was already under way is appended, and
\* downloaded_size grows by that chunk only), the task does not become
\* completed, and the transfer of another task is never blocked by it.
C26_PauseSuspendsCopyLoop ==
    [][\A t \in TaskIds :
          (PauseInForce(t) /\ tasks'[t].paused)
          => /\ \A c \in Callers :
                   (co[c].task = t /\ co'[c].pc = "write")
                   => co[c].pc = "write"
             /\ tasks'[t].downloaded_size > tasks[t].downloaded_size
                => \E c \in Callers : co[c].task = t /\ co[c].pc = "write"
             /\ tasks'[t].status # "completed"
             /\ \A d \in Callers :
                   (co[d].task # t /\ co[d].pc \in InTransfer /\ ~Blocked(d))
                   => ENABLED Transfer(d)]_vars

\* C26, amended: as above, except that the task can become completed,
\* but only by a call of start() whose copy loop is over (the body was
\* read to its end before the flag was tested again) or that finds the
\* target file complete.
C26_PauseBetweenChunks ==
    [][\A t \in TaskIds :
          (PauseInForce(t) /\ tasks'[t].paused)
          => /\ \A c \in Callers :
                   (co[c].task = t /\ co'[c].pc = "write")
                   => co[c].pc = "write"
             /\ tasks'[t].downloaded_size > tasks[t].downloaded_size
                => \E c \in Callers : co[c].task = t /\ co[c].pc = "write"
             /\ tasks'[t].status = "completed"
                => \E c \in Callers : /\ co[c].task = t
                                      /\ co[c].pc \in {"closing", "head"}
                                      /\ co'[c].pc = "done"
             /\ \A d \in Callers :
                   (co[d].task # t /\ co[d].pc \in InTransfer /\ ~Blocked(d))
                   => ENABLED Transfer(d)]_vars


\* the pause of task 1 holds its second chunk back after the chunk under
\* write at the time of pause() was appended, while task 2 has completed
C26_Witness ==
    /\ PauseInForce(1)
    /\ Blocked(1)
    /\ co[1].task = 1
    /\ tasks[1].downloaded_size = 1
    /\ Len(tasks) = 2
    /\ tasks[2].status = "completed"


\* --------------------------------------------------- engine controls
\* pause_download (lines 151-166): task.pause() is a coroutine function
\* and the call is not awaited, so its body never runs
PauseDownload(c, id) ==
    LET found == id \in DOMAIN downloads
        ok == found /\ tasks[downloads[id]].status = "downloading"
    IN /\ co[c].pc = "idle"
       /\ lock = 0
       /\ co' = [co EXCEPT ![c].pc = "pause_done", ![c].id = id,
                           ![c].task = IF found THEN downloads[id] ELSE 0,
                           ![c].ret = IF ok THEN "true" ELSE "false"]
       /\ UNCHANGED <<downloads, lock, tasks, config, fs, net, hist>>
       /\ UNCHANGED <<runVars, hlsVars, libVars>>

\* cancel_download (lines 185-200): task.cancel() is a plain method
CancelDownload(c, id) ==
    LET found == id \in DOMAIN downloads
        t == downloads[id]
        ok == found /\ tasks[t].status \in {"downloading", "paused",
                                            "preparing"}
    IN /\ co[c].pc = "idle"
       /\ lock = 0
       /\ co' = [co EXCEPT ![c].pc = "cancel_done", ![c].id = id,
                           ![c].task = IF found THEN t ELSE 0,
                           ![c].ret = IF ok THEN "true" ELSE "false"]
       /\ IF ok
          THEN /\ tasks' = [tasks EXCEPT
                      ![t].cancelled = TRUE,
                      ![t].paused = FALSE,
                      ![t].status = "cancelled",
                      ![t].h_hit = @ \/ (/\ tasks[t].status
                                              \in {"downloading", "paused"}
                                         /\ \E d \in Callers :
                                               /\ co[d].task = t
                                               /\ co[d].pc \in InTransfer)]
               /\ hist' = [hist EXCEPT !.cancelCalled = TRUE]
          ELSE UNCHANGED <<tasks, hist>>
       /\ UNCHANGED <<downloads, lock, config, fs, net>>
       /\ UNCHANGED <<runVars, hlsVars, libVars>>

\* caller 1 transfers with download() and start() and its task is paused
\* and resumed with awaited pause() and resume(); caller 2 makes one call
\* of pause_download, resume_download_by_id or cancel_download
NextControl ==
    \/ \E u \in Urls, p \in Paths : CallDownload(1, u, p)
    \/ Progress(1)
    \/ Unwind(1)
    \/ \E t \in TaskIds : Pause(t)
    \/ \E t \in TaskIds : Resume(t)
    \/ \E u \in Urls, p \in Paths :
          PauseDownload(2, _generate_download_id(u, p))
    \/ \E u \in Urls, p \in Paths :
          ResumeDownloadById(2, _generate_download_id(u, p))
    \/ \E u \in Urls, p \in Paths :
          CancelDownload(2, _generate_download_id(u, p))

InitControl == EngInit({1, 2}, 1..2, {[max_retries |-> 1, chunk_size |-> 1]})

SpecControl == InitControl /\ [][NextControl]_vars

\* the call of an engine control by c is made in this step
Control(c, pc) == co[c].pc = "idle" /\ co'[c].pc = pc /\ co'[c].ret # "none"

\* C27: pause_download returns true exactly when the task exists with
\* status downloading, and then the task is paused with its flag set;
\* resume_download_by_id returns true exactly when the status is paused,
\* and then the status is downloading with the flag cleared;
\* cancel_download returns true exactly when the status is downloading,
\* paused or preparing, and then the status is cancelled; a call that
\* returns false leaves the tasks unchanged.
C27_ControlGuards ==
    [][\A c \in Callers :
          LET id == co'[c].id
              found == id \in DOMAIN downloads
              t == downloads[id]
              yes == co'[c].ret = "true"
          IN /\ Control(c, "pause_done")
                => /\ yes <=> (found /\ tasks[t].status = "downloading")
                   /\ yes => /\ tasks'[t].status = "paused"
                             /\ tasks'[t].paused
                   /\ ~yes => tasks' = tasks
             /\ Control(c, "ctl_done")
                => /\ yes <=> (found /\ tasks[t].status = "paused")
                   /\ yes => /\ tasks'[t].status = "downloading"
                             /\ ~tasks'[t].paused
                   /\ ~yes => tasks' = tasks
             /\ Control(c, "cancel_done")
                => /\ yes <=> (found /\ tasks[t].status
                                  \in {"downloading", "paused", "preparing"})
                   /\ yes => tasks'[t].status = "cancelled"
                   /\ ~yes => tasks' = tasks]_vars


\* --------------------------------------------------- download_video_item
\* the worker is terminated (revoke with terminate=True) while the
\* assembly waits for its segments: the output file stays as written
HlsKilled ==
    /\ hls.pc = "gather"
    /\ hls' = [hls EXCEPT !.pc = "killed", !.ret = "none", !.pending = {}]
    /\ UNCHANGED <<engVars, runVars, libVars>>

\* download_video_item for an item whose source is a playlist, in a later
\* run of the job (lines 1278-1291): True when a file exists at file_path,
\* otherwise download_m3u8_stream is called again
DownloadVideoItem ==
    /\ hls.pc \in {"done", "killed"}
    /\ IF hls.out.exists
       THEN hls' = [hls EXCEPT !.pc = "item_done", !.ret = "true"]
       ELSE hls' = [hls EXCEPT !.pc = "start", !.ret = "none", !.i = 0,
                               !.order = <<>>, !.history = <<>>,
                               !.data = [j \in 1..MaxSegs |-> <<>>],
                               !.fetched = {}]
    /\ UNCHANGED <<engVars, runVars, libVars>>

\* the first run finds no file at file_path and calls download_m3u8_stream;
\* later runs of the job call download_video_item on the same item
NextVideoItem ==
    \/ \E n \in 0..MaxSegs, size \in HlsChunkSizes : HlsStart(n, size)
    \/ \E j \in 1..MaxSegs, ok \in BOOLEAN : SegmentDone(j, ok)
    \/ HlsWrite
    \/ HlsKilled
    \/ DownloadVideoItem

SpecVideoItem == InitHls /\ [][NextVideoItem]_vars

\* C28: when download_video_item returns true, the file at file_path holds
\* the whole content: the bytes of every segment of the playlist, in order.
C28_CompletedMeansComplete ==
    (hls.pc \in {"done", "item_done"} /\ hls.ret = "true")
    => /\ hls.out.exists
       /\ hls.out.data = Flatten([j \in 1..hls.n |-> Payload(j)])


\* ------------------------------------------------ counters of the runner
\* item.save() (line 89) or download_task.save() (line 94) raises: the
\* assignments made before the call stay in memory and control goes to
\* the except clause of the loop body (line 105)
RunSaveRaises ==
    /\ run.pc \in {"r_save_item", "r_save_task"}
    /\ loc' = IF run.pc = "r_save_task"
              THEN [loc EXCEPT
                      !.downloaded_items = run.completed_items,
                      !.progress_percentage =
                          (run.completed_items * 100) \div Len(run.items)]
              ELSE loc
    /\ run' = [run EXCEPT !.pc = "r_item_exc"]
    /\ UNCHANGED <<db, view, rh>>
    /\ UNCHANGED <<engVars, hlsVars, libVars>>

\* lines 105-112: the item is marked failed and saved, failed_items is
\* incremented and the task is saved; the loop goes on
RunItemHandler ==
    /\ run.pc = "r_item_exc"
    /\ loc' = [loc EXCEPT !.failed_items = @ + 1]
    /\ RunnerSave(loc')
    /\ run' = [run EXCEPT !.pc = "r_loop", !.idx = @ + 1,
                          !.items[run.idx] = "failed"]
    /\ UNCHANGED view
    /\ UNCHANGED <<engVars, hlsVars, libVars>>

NextCounters == NextRunner \/ RunSaveRaises \/ RunItemHandler

SpecCounters == InitRunner /\ [][NextCounters]_vars

\* the runner has left its loop by running out of items
LoopEnded == run.pc \in {"r_final", "done"} /\ run.idx > Len(run.items)

\* C29: in the stored row and in the runner's copy, downloaded_items +
\* failed_items never exceeds total_items; the items counted in this run
\* (completed ones and failed ones) are no more than the items executed;
\* and when the loop has ended without a cancellation the two counters add
\* up to total_items, in a first run and in a retry.
C29_CounterInvariant ==
    /\ db.downloaded_items + db.failed_items <= db.total_items
    /\ ~rh.taskFailed
       => run.completed_items + (loc.failed_items - rh.failed0)
             <= Len(rh.executed)
    /\ (LoopEnded /\ ~rh.taskFailed /\ loc.status # "cancelled")
       => loc.downloaded_items + loc.failed_items = loc.total_items


\* C30: when a GET with a Range header from offset k > 0 is answered with
\* 200, the k bytes of <target>.tmp are discarded, downloaded_size counts
\* from 0 and the file is written from its start with the whole body;
\* when it is answered with 206 the file is kept and the rest of the
\* resource is appended after its k bytes. In both cases a transfer that
\* returns true leaves exactly the bytes of the resource in <target>.
C30_RangeIgnoredRestarts ==
    /\ [][\A c \in Callers :
            LET t == co[c].task
                p == co[c].path
                k == co[c].resume_position
            IN (co[c].pc = "get" /\ co'[c].pc = "open" /\ k > 0)
               => IF net.rangeOK
                  THEN /\ fs'[p].tmp = fs[p].tmp
                       /\ co'[c].mode = "ab"
                       /\ co'[c].body = SubSeq(net.R, k + 1, Len(net.R))
                       /\ tasks'[t].downloaded_size = k
                  ELSE /\ ~fs'[p].tmp.exists
                       /\ co'[c].mode = "wb"
                       /\ co'[c].resume_position = 0
                       /\ co'[c].body = net.R
                       /\ tasks'[t].downloaded_size = 0]_vars
    /\ [](\A c \in Callers :
            (co[c].pc = "done" /\ co[c].ret = "true"
             /\ tasks[co[c].task].h_gets >= 1)
            => /\ fs[co[c].path].target = File(net.R)
               /\ tasks[co[c].task].downloaded_size = Len(net.R))

\* a transfer that found k > 0 bytes in <target>.tmp, was answered with
\* 200 and has finished
C30_Witness ==
    \E c \in Callers :
        /\ co[c].pc = "done"
        /\ co[c].ret = "true"
        /\ ~net.rangeOK
        /\ hist.disk0.tmp.exists
        /\ Len(hist.disk0.tmp.data) >= 1
        /\ tasks[co[c].task].h_gets = 1
        /\ co[c].mode = "wb"
        /\ fs[co[c].path].target = File(net.R)
        /\ tasks[co[c].task].downloaded_size = Len(net.R)


\* ------------------------------------------------ reuse after a cancel
\* the steps of download() and start() for caller c when no pause is made
Steps(c) ==
    \/ AcquireLock(c)
    \/ CheckRegistry(c)
    \/ CreateTask(c)
    \/ StartCall(c)
    \/ \E ok \in BOOLEAN : HeadResponse(c, ok)
    \/ SaveMetadata(c)
    \/ GetResponse(c)
    \/ OpenTmp(c)
    \/ \E len \in 1..MaxChunk : ReadChunk(c, len)
    \/ WriteChunk(c)
    \/ Finish(c)
    \/ Unwind(c)

\* cancel() has stopped the transfer of caller 1: its start() has returned
\* False
CancelledRun ==
    /\ co[1].pc = "done"
    /\ co[1].ret = "false"
    /\ co[1].task # 0
    /\ tasks[co[1].task].h_hit

\* caller 1 calls download(u, p) and start(), cancel() is called during
\* the transfer; once that start() has returned, caller 2 calls
\* download(u, p) and start() on the same engine; the server is healthy
NextReuse ==
    \/ \E p \in Paths : CallDownload(1, "u", p)
    \/ \E c \in Callers : Steps(c)
    \/ \E t \in TaskIds :
          /\ co[1].task = t
          /\ co[1].pc \in InTransfer
          /\ ~tasks[t].cancelled
          /\ Cancel(t)
    \/ \E p \in Paths : CancelledRun /\ CallDownload(2, "u", p)

\* a resource of two or three bytes read in chunks of one byte
InitReuse ==
    EngInit({1, 2}, 2..3, {[max_retries |-> m, chunk_size |-> 1] : m \in 1..2})

\* the event loop runs the second call as long as it can take a step
SpecReuse == InitReuse /\ [][NextReuse]_vars /\ WF_vars(Steps(2))

\* C31: after a cancel() during a transfer, <target>.tmp is still on disk
\* when the cancelled start() has returned, and a following download(u, p)
\* and start() for the same item ends with the task completed and the
\* resource at <target>.
C31_PartialReusable ==
    /\ [](CancelledRun /\ co[2].pc = "idle"
          => \A p \in Paths : fs[p].tmp.exists)
    /\ (co[2].pc = "dl_lock")
          ~> (/\ co[2].pc = "done"
              /\ co[2].task # 0
              /\ tasks[co[2].task].status = "completed"
              /\ fs[co[2].path].target = File(net.R))


\* C32: for a task that is not cancelled the pause flag is set exactly when
\* the status is paused; in particular no transfer waits on the flag while
\* the status reads downloading.
C32_PauseFlagAgrees ==
    \A t \in 1..Len(tasks) :
        ~tasks[t].cancelled
        => /\ tasks[t].paused <=> (tasks[t].status = "paused")
           /\ \A c \in Callers :
                 (co[c].task = t /\ Blocked(c))
                 => tasks[t].status # "downloading"


\* ------------------------------------------ UdemyDownloader.download_course
MaxCourse == 2         \* most downloadable items a curriculum holds

\* _sanitize_filename (lines 523-530): the invalid characters are removed;
\* the titles drawn hold no white space and are shorter than 100
UdemySanitize(filename) ==
    Str(SelectSeq(filename, LAMBDA ch : ch \notin InvalidChars))

\* _get_file_extension (lines 532-541); url_ext is the extension of the
\* path of the url
UdemyExtension(url_ext) == IF url_ext # "" THEN url_ext ELSE ".mp4"

\* the file _download_curriculum_item writes for an item that has no
\* subtitles and no supplementary assets (lines 321-368, 474-488, 501-511)
OutputPath(item) ==
    LET item_title == UdemySanitize(item.title) IN
    IF item.type = "video"
    THEN "videos/" \o item_title \o
         (IF item.stream THEN ".mp4" ELSE UdemyExtension(item.url_ext))
    ELSE IF item.type = "article"
    THEN "articles/" \o item_title \o ".html"
    ELSE "files/" \o item_title \o UdemyExtension(item.url_ext)

\* lines 257-292: the downloadable items are filtered, the semaphore is
\* created and one coroutine per item is handed to gather
DownloadCourse(curriculum, max_concurrent_downloads) ==
    /\ plan.pc = "course"
    /\ plan' = [pc |-> "gather", items |-> curriculum,
                max |-> max_concurrent_downloads,
                st |-> [i \in 1..Len(curriculum) |-> "waiting"],
                sem |-> max_concurrent_downloads]
    /\ UNCHANGED <<engVars, runVars, hlsVars, lib>>

\* `async with semaphore:` is entered and the output file is opened
ItemEnter(i) ==
    /\ plan.pc = "gather"
    /\ i \in 1..Len(plan.items)
    /\ plan.st[i] = "waiting"
    /\ plan.sem > 0
    /\ plan' = [plan EXCEPT !.st[i] = "writing", !.sem = @ - 1]
    /\ UNCHANGED <<engVars, runVars, hlsVars, lib>>

\* the item is written (or its download raises) and the semaphore is
\* released
ItemLeave(i) ==
    /\ plan.pc = "gather"
    /\ i \in 1..Len(plan.items)
    /\ plan.st[i] = "writing"
    /\ plan' = [plan EXCEPT !.st[i] = "done", !.sem = @ + 1]
    /\ UNCHANGED <<engVars, runVars, hlsVars, lib>>

\* line 292: gather returns when every coroutine has ended
CourseDone ==
    /\ plan.pc = "gather"
    /\ \A i \in 1..Len(plan.items) : plan.st[i] = "done"
    /\ plan' = [plan EXCEPT !.pc = "course_done"]
    /\ UNCHANGED <<engVars, runVars, hlsVars, lib>>

InitCourse ==
    /\ EngOff
    /\ RunOff
    /\ HlsOff
    /\ lib = [pc |-> "off"]
    /\ plan = [pc |-> "course"]

NextCourse ==
    \/ \E n \in 1..MaxCourse, max \in 1..2 :
          \E curriculum \in
                [1..n -> [type : {"video", "article", "file"},
                          title : {<<"A">>, <<"A", "/">>, <<"B">>},
                          stream : BOOLEAN,
                          url_ext : {"", ".pdf"}]] :
             DownloadCourse(curriculum, max)
    \/ \E i \in 1..MaxCourse : ItemEnter(i)
    \/ \E i \in 1..MaxCourse : ItemLeave(i)
    \/ CourseDone

SpecCourse == InitCourse /\ [][NextCourse]_vars

\* C33: no two items of a course have the same output path, so no two
\* items in progress write the same file, and at most
\* max_concurrent_downloads items are in progress.
C33_CollisionFreePaths ==
    plan.pc \in {"gather", "course_done"}
    => /\ \A i, j \in 1..Len(plan.items) :
             i # j => OutputPath(plan.items[i]) # OutputPath(plan.items[j])
       /\ Cardinality({i \in 1..Len(plan.items) : plan.st[i] = "writing"})
             <= plan.max


\* ------------------------------- M3U8Service._extract_urls_and_qualities
\* A playlist is the sequence of its lines. A line is a STREAM-INF line
\* with the height of its RESOLUTION attribute (0: no such attribute), a
\* URI line with its url, or another line (a comment, a tag, a blank).
InfLine(height) == [tag |-> "inf", height |-> height, url |-> ""]

UriLine(url) == [tag |-> "uri", height |-> 0, url |-> url]

OtherLine == [tag |-> "other", height |-> 0, url |-> ""]

\* line.startswith('http') (line 99)
StartsWithHttp(line) == line.url \in {"http://a", "http://b"}

\* lines 82-108: the loop over the lines, with current_quality (0: None)
\* and the entries appended so far
RECURSIVE ExtractFrom(_, _, _)
ExtractFrom(lines, current_quality, urls_and_qualities) ==
    IF lines = <<>> THEN urls_and_qualities
    ELSE LET line == Head(lines) IN
         IF line.tag = "inf"
         THEN ExtractFrom(Tail(lines),
                          IF line.height > 0 THEN line.height
                          ELSE current_quality,
                          urls_and_qualities)
         ELSE IF StartsWithHttp(line)
         THEN IF current_quality # 0
              THEN ExtractFrom(Tail(lines), 0,
                      Append(urls_and_qualities,
                             [quality |-> current_quality, url |-> line.url]))
              ELSE ExtractFrom(Tail(lines), current_quality,
                               urls_and_qualities)
         ELSE ExtractFrom(Tail(lines), current_quality, urls_and_qualities)

_extract_urls_and_qualities(m3u8_content) == ExtractFrom(m3u8_content, 0, <<>>)

CallExtract ==
    /\ lib.pc = "call"
    /\ lib' = [lib EXCEPT !.pc = "done",
                          !.result = _extract_urls_and_qualities(lib.m3u8_content)]
    /\ UNCHANGED <<engVars, runVars, hlsVars, plan>>

\* the master playlist as fetched: up to MaxLines lines
InitExtract ==
    LET Lines == {InfLine(0), InfLine(360), InfLine(720), OtherLine,
                  UriLine("http://a"), UriLine("http://b"), UriLine("c")}
    IN /\ EngOff
       /\ RunOff
       /\ HlsOff
       /\ PlanOff
       /\ \E ls \in SeqsUpTo(Lines, MaxLines) :
             lib = [pc |-> "call", m3u8_content |-> ls, result |-> <<>>]

NextExtract == CallExtract

SpecExtract == InitExtract /\ [][NextExtract]_vars

\* the entries a playlist stands for: one for each STREAM-INF line that
\* has a RESOLUTION and whose next URI line comes before any other
\* STREAM-INF line, made of its height and of that URI, in playlist order
RECURSIVE PairedFrom(_)
PairedFrom(lines) ==
    IF lines = <<>> THEN <<>>
    ELSE LET rest == Tail(lines)
             uris == {j \in 1..Len(rest) :
                         /\ rest[j].tag = "uri"
                         /\ \A i \in 1..(j - 1) : rest[i].tag = "other"}
         IN IF Head(lines).tag = "inf" /\ Head(lines).height > 0 /\ uris # {}
            THEN <<[quality |-> Head(lines).height,
                    url |-> rest[CHOOSE j \in uris : TRUE].url]>>
                 \o PairedFrom(rest)
            ELSE PairedFrom(rest)

\* C34: the entries returned are those of PairedFrom: each pairs the
\* height of a STREAM-INF line with the URI line that follows that line,
\* a STREAM-INF line without RESOLUTION yields nothing and inherits
\* nothing, and each STREAM-INF line yields at most one entry, in order.
C34_PlaylistPairs ==
    lib.pc = "done" => lib.result = PairedFrom(lib.m3u8_content)


\* ----------------------------------- Utils.get_sequence_name on the disk
\* index_path and sequence_path of get_sequence_name (lines 131-139)
SequencePaths(index, count, name, separator_index, path) ==
    LET sanitized_name == Str(sanitize_filename(name)) IN
    [index_path |->
         path \o "/" \o ToString(index) \o separator_index \o sanitized_name,
     sequence_path |->
         path \o "/" \o zero_pad(index, count) \o separator_index
              \o sanitized_name]

os_rename_Kept(disk, src, dst) == disk

\* os.rename(src, dst) on regular files of one directory: the file is
\* moved, a file at dst is replaced; disk maps a path to the content of
\* the file it names, 0 where there is none
os_rename(disk, src, dst) ==
    [q \in DOMAIN disk |->
        IF q = dst THEN disk[src] ELSE IF q = src THEN 0 ELSE disk[q]]

\* the renames of get_sequence_name (lines 141-158)
SequenceDisk(p, seq_zero_left, disk) ==
    IF p.index_path = p.sequence_path THEN disk
    ELSE IF seq_zero_left
    THEN IF disk[p.index_path] # 0
         THEN os_rename(disk, p.index_path, p.sequence_path) ELSE disk
    ELSE IF disk[p.sequence_path] # 0
         THEN os_rename(disk, p.sequence_path, p.index_path) ELSE disk

CallGetSequenceName ==
    /\ lib.pc = "call"
    /\ lib' = [lib EXCEPT
           !.pc = "done",
           !.result = get_sequence_name(lib.index, lib.count, lib.name, ". ",
                                        "d", lib.seq_zero_left),
           !.disk = SequenceDisk(SequencePaths(lib.index, lib.count,
                                               lib.name, ". ", "d"),
                                 lib.seq_zero_left, lib.disk0)]
    /\ UNCHANGED <<engVars, runVars, hlsVars, plan>>

\* an item number, the number of items, a file name, the preference, and
\* the files (content 1 or 2) an earlier run left under the two names
InitSequence ==
    /\ EngOff
    /\ RunOff
    /\ HlsOff
    /\ PlanOff
    /\ \E index \in 1..2, count \in {0, 2, 10, 100},
          name \in {<<"A">>, <<"B", ".">>}, seq_zero_left \in BOOLEAN :
          LET p == SequencePaths(index, count, name, ". ", "d") IN
          \E disk \in [{p.index_path, p.sequence_path} -> 0..2] :
             lib = [pc |-> "call", index |-> index, count |-> count,
                    name |-> name, seq_zero_left |-> seq_zero_left,
                    disk0 |-> disk, disk |-> disk, result |-> ""]

NextSequence == CallGetSequenceName

SpecSequence == InitSequence /\ [][NextSequence]_vars

C36_RenameLosesNothing ==
    lib.pc = "done" =>
        \A q \in DOMAIN lib.disk0 :
            lib.disk0[q] # 0
            => \E r \in DOMAIN lib.disk : lib.disk[r] = lib.disk0[q]


\* ------------------------------------- UdemyService.fetch_course_content
MaxPages == 2          \* most pages a curriculum is served in

\* str(e) of the UdemyServiceError of _fetch_url (line 102): the message
\* is a sequence of words
HttpError(status, error_text) ==
    <<"HTTP ", ToString(status), ": ">> \o error_text

\* `"503" in str(e)` (line 326)
Mentions503(message) == \E i \in 1..Len(message) : message[i] = "503"

\* the except clause of lines 325-328: the fallback is called or the
\* error is raised again
FetchFallback(message) == Mentions503(message)

\* one page of the curriculum is fetched by _fetch_url (lines 303-316):
\* the answer has a status, a body and, when it is a page, a next link
FetchPage(status, error_text, next) ==
    /\ lib.pc = "fetch"
    /\ lib.pages < MaxPages \/ ~next
    /\ IF status >= 400
       THEN IF FetchFallback(HttpError(status, error_text))
            THEN lib' = [lib EXCEPT !.pc = "fallback", !.status = status,
                                    !.fallbacks = @ + 1]
            ELSE lib' = [lib EXCEPT !.pc = "raised", !.status = status,
                                    !.error = HttpError(status, error_text)]
       ELSE lib' = [lib EXCEPT !.pc = IF next THEN "fetch" ELSE "done",
                               !.status = status,
                               !.pages = @ + 1,
                               !.result = IF next THEN @ ELSE "content"]
    /\ UNCHANGED <<engVars, runVars, hlsVars, plan>>

\* fetch_course_fallback (lines 351-362): one request to the reduced-field
\* endpoint, its data is returned or its error propagates
FallbackResponse(status, error_text) ==
    /\ lib.pc = "fallback"
    /\ IF status >= 400
       THEN lib' = [lib EXCEPT !.pc = "raised",
                               !.error = HttpError(status, error_text)]
       ELSE lib' = [lib EXCEPT !.pc = "done", !.result = "fallback"]
    /\ UNCHANGED <<engVars, runVars, hlsVars, plan>>

InitFetch ==
    /\ EngOff
    /\ RunOff
    /\ HlsOff
    /\ PlanOff
    /\ lib = [pc |-> "fetch", pages |-> 0, status |-> 0, fallbacks |-> 0,
              error |-> <<>>, result |-> "none"]

\* the statuses and the bodies the server answers with
NextFetch ==
    \/ \E status \in {200, 404, 429, 500, 503},
          error_text \in {<<>>, <<"down">>, <<"code", " ", "503">>},
          next \in BOOLEAN : FetchPage(status, error_text, next)
    \/ \E status \in {200, 404, 429, 500, 503},
          error_text \in {<<>>, <<"down">>, <<"code", " ", "503">>} :
          FallbackResponse(status, error_text)

SpecFetch == InitFetch /\ [][NextFetch]_vars

\* C37: the fallback endpoint is called exactly when a page fetch was
\* answered with 503, once, and its result is returned; an error with any
\* other status is raised with no fallback call.
C37_FallbackOn503 ==
    /\ lib.fallbacks <= 1
    /\ lib.fallbacks = 1 <=> (lib.pc # "fetch" /\ lib.status = 503)
    /\ (lib.pc = "done" /\ lib.fallbacks = 1) => lib.result = "fallback"
    /\ (lib.pc = "raised" /\ lib.status # 503) => lib.fallbacks = 0


\* C38: start() ends at once with status completed and true only when
\* <target> exists with the size the server reports, and then no GET is
\* issued and no file is touched; when <target> is missing or has another
\* size, start() goes on to a transfer.
C38_ShortCircuit ==
    [][\A c \in Callers :
          LET t == co[c].task
              target == fs[co[c].path].target
              same_size == /\ target.exists
                           /\ Len(net.R) > 0
                           /\ Len(target.data) = Len(net.R)
          IN /\ (co[c].pc = "head" /\ co'[c].pc = "done")
                => /\ same_size
                   /\ co'[c].ret = "true"
                   /\ tasks'[t].status = "completed"
                   /\ tasks'[t].h_gets = tasks[t].h_gets
                   /\ fs' = fs
             /\ (co[c].pc = "have_task" /\ co'[c].pc # "have_task")
                => co'[c].pc = IF target.exists THEN "head" ELSE "save_md"
             /\ (co[c].pc = "head" /\ co'[c].pc # "head" /\ ~same_size)
                => co'[c].pc = "save_md"]_vars


\* ------------------------------ M3U8Service.get_file and load_playlist
MaxFetch == 3          \* largest max_retries of a load_playlist call

\* the first line of a playlist, and a blank line
HeaderLine == [tag |-> "m3u", height |-> 0, url |-> ""]

BlankLine == [tag |-> "blank", height |-> 0, url |-> ""]

\* content.strip(): the text without its leading and trailing blank lines
RECURSIVE StripLines(_)
StripLines(content) ==
    IF content = <<>> THEN <<>>
    ELSE IF Head(content) = BlankLine THEN StripLines(Tail(content))
    ELSE IF content[Len(content)] = BlankLine
    THEN StripLines(SubSeq(content, 1, Len(content) - 1))
    ELSE content

\* line 70: content.strip().startswith("#EXTM3U")
_is_valid_m3u8_content(content) ==
    StripLines(content) # <<>> /\ Head(StripLines(content)) = HeaderLine

\* lines 131 and 145: another attempt is made while retries < max_retries
FetchGoesOn_OneMore(retries, max_retries) == retries <= max_retries

FetchGoesOn(retries, max_retries) == retries < max_retries

\* lines 166-177 after get_file has returned playlist_content
LoadPlaylistBody(playlist_content) ==
    IF _is_valid_m3u8_content(playlist_content)
    THEN [lib EXCEPT !.pc = "done", !.outcome = "returned",
                     !.content = playlist_content,
                     !.playlist = _extract_urls_and_qualities(playlist_content)]
    ELSE [lib EXCEPT !.pc = "done", !.outcome = "raised",
                     !.content = playlist_content]

\* lines 131-149: one attempt of get_file; status 0 is an exception of the
\* session (a timeout, a refused connection). A failed attempt that is not
\* the last one reaches the sleep of line 149; the last one leaves the loop
\* and line 151 raises, which load_playlist turns into its own error
\* (lines 175-177).
GetFile(status, text) ==
    /\ lib.pc = "get"
    /\ FetchGoesOn(lib.retries, lib.max_retries)
    /\ LET tried == [lib EXCEPT !.log = Append(lib.log, status)] IN
       lib' = IF status = 200
              THEN [LoadPlaylistBody(text) EXCEPT !.log = tried.log]
              ELSE IF FetchGoesOn(lib.retries + 1, lib.max_retries)
              THEN [tried EXCEPT !.pc = "sleep", !.retries = lib.retries + 1]
              ELSE [tried EXCEPT !.pc = "done", !.retries = lib.retries + 1,
                                 !.outcome = "raised"]
    /\ UNCHANGED <<engVars, runVars, hlsVars, plan>>

\* lines 131, 151: the loop is not entered at all (max_retries <= 0)
GetFileNoAttempt ==
    /\ lib.pc = "get"
    /\ lib.retries = 0
    /\ ~FetchGoesOn(lib.retries, lib.max_retries)
    /\ lib' = [lib EXCEPT !.pc = "done", !.outcome = "raised"]
    /\ UNCHANGED <<engVars, runVars, hlsVars, plan>>

\* line 149: asyncio.sleep(1)
GetFileSleep ==
    /\ lib.pc = "sleep"
    /\ lib' = [lib EXCEPT !.pc = "get", !.delays = Append(lib.delays, 1)]
    /\ UNCHANGED <<engVars, runVars, hlsVars, plan>>

\* a load_playlist(max_retries) call on a service whose playlist is empty
\* (line 41) or was loaded by an earlier call
InitPlaylist ==
    /\ EngOff
    /\ RunOff
    /\ HlsOff
    /\ PlanOff
    /\ \E m \in 0..MaxFetch,
          p \in {<<>>, <<[quality |-> 360, url |-> "http://a"]>>} :
          lib = [pc |-> "get", max_retries |-> m, retries |-> 0,
                 log |-> <<>>, delays |-> <<>>, content |-> <<>>,
                 playlist0 |-> p, playlist |-> p, outcome |-> ""]

NextPlaylist ==
    \/ \E status \in {0, 404, 503} : GetFile(status, <<>>)
    \/ \E text \in {<<>>, <<HeaderLine>>,
                    <<HeaderLine, InfLine(720), UriLine("http://b")>>,
                    <<BlankLine, HeaderLine, InfLine(360), UriLine("http://a")>>,
                    <<InfLine(720), UriLine("http://b")>>,
                    <<OtherLine, HeaderLine>>} : GetFile(200, text)
    \/ GetFileNoAttempt
    \/ GetFileSleep

\* each attempt ends (the session has a total timeout of 30 s, line 133)
\* and the event loop resumes the coroutine after its sleep
SpecPlaylist == InitPlaylist /\ [][NextPlaylist]_vars /\ WF_vars(NextPlaylist)

\* C39: get_file makes at most max_retries attempts, with one delay of
\* 1 s between two attempts; the first attempt answered 200 ends it with
\* that answer's text; max_retries failures in a row end it with the
\* error; the call always ends; and a call ended by the error, or by a
\* text without the #EXTM3U header, leaves self.playlist as it was.
C39_BoundedFetch ==
    /\ [](LET n == Len(lib.log)
              failed == {i \in 1..n : lib.log[i] # 200}
          IN /\ n <= lib.max_retries \/ n = 0
             /\ \A i \in 1..(n - 1) : i \in failed
             /\ \A i \in 1..Len(lib.delays) : lib.delays[i] = 1
             /\ lib.pc = "sleep" => Len(lib.delays) = n - 1
             /\ lib.pc = "get" => Len(lib.delays) = n
             /\ lib.pc = "done" =>
                   /\ n > 0 => Len(lib.delays) = n - 1
                   /\ lib.outcome \in {"returned", "raised"}
                   /\ lib.outcome = "returned" =>
                         /\ n > 0 /\ lib.log[n] = 200
                         /\ StripLines(lib.content) # <<>>
                         /\ Head(StripLines(lib.content)) = HeaderLine
                         /\ lib.playlist = ExtractFrom(lib.content, 0, <<>>)
                   /\ lib.outcome = "raised" =>
                         /\ lib.playlist = lib.playlist0
                         /\ \/ failed = 1..n /\ (n = lib.max_retries \/ n = 0)
                            \/ /\ n > 0 /\ lib.log[n] = 200
                               /\ \/ StripLines(lib.content) = <<>>
                                  \/ Head(StripLines(lib.content)) # HeaderLine)
    /\ <>(lib.pc = "done")

\* three failed attempts exhaust max_retries = 3 and a loaded playlist is kept
C39_Witness ==
    /\ lib.pc = "done"
    /\ lib.outcome = "raised"
    /\ lib.max_retries = MaxFetch
    /\ Len(lib.log) = MaxFetch
    /\ lib.log[MaxFetch] # 200
    /\ Len(lib.delays) = MaxFetch - 1
    /\ lib.playlist0 # <<>>


\* --------------------------------------- the quality range of the streams
\* the streams of the lecture as converted, and the entries of its
\* stream_urls that the conversion goes through (lines 486-505)
NumericKeys(sources) ==
    {sources[k].key.val : k \in {j \in 1..Len(sources) : sources[j].key.isnum}}

DirectEntries(lecture) ==
    LET clear == SelectSeq(lecture.stream_urls,
                           LAMBDA s : ~IsEncryptedUrl(s.url))
        kept == IF ~lecture.media_license_token /\ clear # <<>>
                THEN clear ELSE lecture.stream_urls
    IN SelectSeq(kept, LAMBDA s : s.type # "application/dash+xml" /\ s.url # "")

\* C40: minQuality and maxQuality of converted streams are the least and
\* the greatest numeric key of sources, both keys of sources and
\* minQuality <= maxQuality; without a numeric key both are 'auto' when
\* sources has that key and None otherwise; and whatever the playlist of
\* the auto source gave, every direct entry is in sources under its label
\* with the url of the last entry of that label.
C40_QualityRange ==
    plan.pc # "fetched" /\ plan.course_data[2].streams.present =>
        LET s == plan.course_data[2].streams
            nums == NumericKeys(s.sources)
            direct == DirectEntries(plan.raw[2])
        IN /\ \A j, k \in 1..Len(s.sources) :
                 s.sources[j].key = s.sources[k].key => j = k
           /\ nums # {} =>
                 /\ s.minQuality.isnum /\ s.maxQuality.isnum
                 /\ s.minQuality.val \in nums
                 /\ s.maxQuality.val \in nums
                 /\ \A q \in nums : s.minQuality.val <= q /\ q <= s.maxQuality.val
                 /\ s.minQuality.val <= s.maxQuality.val
           /\ nums = {} =>
                 /\ s.minQuality = s.maxQuality
                 /\ s.minQuality =
                       IF \E k \in 1..Len(s.sources) :
                             s.sources[k].key = Word("auto")
                       THEN Word("auto") ELSE Word("None")
           /\ \A i \in 1..Len(direct) :
                 (\A j \in (i + 1)..Len(direct) :
                     direct[j].label # direct[i].label)
                 => \E k \in 1..Len(s.sources) :
                       /\ s.sources[k].key = direct[i].label
                       /\ s.sources[k].url = direct[i].url
                       /\ s.sources[k].type = direct[i].type
           /\ \A k \in 1..Len(s.sources) :
                 \/ \E i \in 1..Len(direct) :
                       direct[i].label = s.sources[k].key
                 \/ /\ s.sources[k].key.isnum
                    /\ \E i \in 1..Len(direct) :
                          direct[i].label = Word("auto")

\* a direct 720 source and an auto source whose playlist gave 360 and
\* 1080: four sources, the range 360..1080
C40_Witness ==
    /\ plan.pc # "fetched"
    /\ plan.course_data[2].streams.present
    /\ Len(plan.course_data[2].streams.sources) = 4
    /\ plan.course_data[2].streams.minQuality = Lbl(360)
    /\ plan.course_data[2].streams.maxQuality = Lbl(1080)
    /\ \E k \in 1..4 : plan.course_data[2].streams.sources[k].key = Lbl(720)


====
